---------------------------- MODULE Spec2Model ----------------------------
(***************************************************************************)
(* Model of pilot/pkg/config/kube/gateway/conversion.go: the conversion of *)
(* gateway-api resources (GatewayClass, Gateway, HTTP/TCP/TLS routes,      *)
(* BackendPolicy) into Istio Gateway / VirtualService / DestinationRule    *)
(* configs, with the status written back on the input resources.          *)
(*                                                                         *)
(* Three specifications share the variables:                               *)
(*   SpecWeights  standardizeWeights and the destination builders          *)
(*   SpecMatch    isRouteMatch                                             *)
(*   Spec         convertResources over a snapshot, pass after pass        *)
(*                                                                         *)
(* Go pointers and optional fields are sequences of length at most one:    *)
(* <<>> is nil, <<v>> points to v.  Strings are TLA+ strings, fmt.Sprintf  *)
(* and + are \o.                                                           *)
(***************************************************************************)
EXTENDS Integers, Sequences, FiniteSets, TLC

VARIABLES
    fpNoise,     \* float64 rounding noise of the build, per weight value
    weights,     \* SpecWeights: the relative weights handed to standardizeWeights
    results,     \* SpecWeights: what standardizeWeights returned (<<>> before the call)
    dests,       \* SpecWeights: what buildHTTPDestination / buildTCPDestination returned
    wpc,         \* SpecWeights: position ("input", "standardized", "http", "tcp")
    cfg,         \* SpecMatch: the route handed to isRouteMatch
    gateway,     \* SpecMatch: the gateway's metadata
    routes,      \* SpecMatch: the listener's RouteBindingSelector
    namespaces,  \* SpecMatch: the namespace index
    matched,     \* SpecMatch: what isRouteMatch returned (FALSE before the call)
    mpc,         \* SpecMatch: position ("input", "done")
    resources,   \* Spec: the snapshot (KubernetesResources), status included
    out,         \* Spec: the OutputResources of the last pass
    ownership,   \* Spec: the ownership map (routeMap) of the last pass
    now,         \* Spec: the clock metav1.Now() reads; one tick per pass
    edits,       \* Spec: how many times the snapshot was replaced
    converted    \* Spec: the last pass ran on the snapshot as it is now

weightVars == <<fpNoise, weights, results, dests, wpc>>
matchVars == <<cfg, gateway, routes, namespaces, matched, mpc>>
convVars == <<resources, out, ownership, now, edits, converted>>
vars == <<weightVars, matchVars, convVars>>

-----------------------------------------------------------------------------
(* Bounds *)

MaxWeight == 3
MaxLen == 4
MaxPasses == 3
MaxEdits == 1

-----------------------------------------------------------------------------
(* Small helpers *)

Range(s) == {s[i] : i \in DOMAIN s}

SeqsUpTo(S, n) == UNION {[1..k -> S] : k \in 0..n}

RECURSIVE FlattenSeq(_)
FlattenSeq(ss) == IF ss = <<>> THEN <<>> ELSE Head(ss) \o FlattenSeq(Tail(ss))

-----------------------------------------------------------------------------
(* Weight normalizer: conversion.go 517-642 *)

RECURSIVE intSum(_)
intSum(n) == IF n = <<>> THEN 0 ELSE Head(n) + intSum(Tail(n))

(* The float64 remainder (perc*100)-float64(rounded) of one entry, kept     *)
(* exactly: num/total is the exact fraction 100*w/total - floor(100*w/total)*)
(* and w the weight it comes from.  float64(w)/float64(total)*100 is within *)
(* a few ulps of the exact quotient and, for total < 50, int() of it is the *)
(* exact floor; so two remainders whose exact values differ compare as the  *)
(* exact values do, two entries of the same weight have the same float, and *)
(* two entries of different weights with the same exact remainder are       *)
(* ordered by rounding noise alone.  That noise depends on the build (Go    *)
(* may fuse perc*100 - rounded into one FMA), so it is the function fpNoise *)
(* chosen once per behaviour.                                               *)
remainder(w, total) == [num |-> (100 * w) % total, w |-> w]

\* mutant: less-or-equal, so that equal remainders are swapped
Float64Less_orEqual(a, b) == a.num <= b.num

\* mutant: the larger remainder is the lesser one
Float64Less_greater(a, b) == a.num > b.num

\* sort.Float64Slice.Less on two remainders
Float64Less(a, b) ==
    IF a.num # b.num THEN a.num < b.num
    ELSE IF a.w = b.w THEN FALSE
    ELSE fpNoise[a.w] < fpNoise[b.w]

\* argSlice.Swap: swaps the value and the index together
Swap(s, i, j) == [s EXCEPT ![i] = s[j], ![j] = s[i]]

(* sort.Sort(sort.Reverse(s)) on fewer than 12 elements is insertion sort:  *)
(*   for i := a+1; i < b; i++                                               *)
(*     for j := i; j > a && Less(j, j-1); j-- { Swap(j, j-1) }              *)
(* with Reverse.Less(j, j-1) = Float64Slice.Less(j-1, j).                   *)
RECURSIVE insertionInner(_, _)
insertionInner(s, j) ==
    IF j > 1 /\ Float64Less(s[j-1].v, s[j].v)
    THEN insertionInner(Swap(s, j, j-1), j-1)
    ELSE s

RECURSIVE insertionSort(_, _)
insertionSort(s, i) ==
    IF i > Len(s) THEN s ELSE insertionSort(insertionInner(s, i), i + 1)

\* mutant: the indices are returned in their own order
argsort_identity(n) == [i \in DOMAIN n |-> i]

\* argsort: the indices of n ordered by descending value
argsort(n) ==
    LET s == insertionSort([i \in DOMAIN n |-> [v |-> n[i], idx |-> i]], 2)
    IN  [i \in DOMAIN n |-> s[i].idx]

\* the caller's slice after standardizeWeights: all-zero input is overwritten by ones
standardizeWeightsArg(ws) ==
    IF Len(ws) # 1 /\ intSum(ws) = 0 THEN [i \in DOMAIN ws |-> 1] ELSE ws

\* mutant: the whole difference to 100 goes to the entry of largest remainder
distributeWeights_allToFirst(ws) ==
    LET w1 == standardizeWeightsArg(ws)
        total == IF intSum(ws) = 0 THEN Len(ws) ELSE intSum(ws)
        rounded == [i \in DOMAIN ws |-> (100 * w1[i]) \div total]
        remainders == [i \in DOMAIN ws |-> remainder(w1[i], total)]
        remaining == 100 - intSum(rounded)
        order == argsort(remainders)
    IN  [i \in DOMAIN ws |->
            IF Len(order) >= 1 /\ order[1] = i THEN rounded[i] + remaining ELSE rounded[i]]

\* standardizeWeights past the single-weight case: conversion.go 597-622
distributeWeights(ws) ==
    LET w1 == standardizeWeightsArg(ws)
        total == IF intSum(ws) = 0 THEN Len(ws) ELSE intSum(ws)
        rounded == [i \in DOMAIN ws |-> (100 * w1[i]) \div total]
        remainders == [i \in DOMAIN ws |-> remainder(w1[i], total)]
        remaining == 100 - intSum(rounded)
        order == argsort(remainders)
    IN  [i \in DOMAIN ws |->
            IF \E k \in DOMAIN order : k <= remaining /\ order[k] = i
            THEN rounded[i] + 1 ELSE rounded[i]]

\* mutant: the rounded-down percentages are returned as they are
standardizeWeights_floorOnly(ws) ==
    IF Len(ws) = 1 THEN <<0>>
    ELSE LET w1 == standardizeWeightsArg(ws)
             total == IF intSum(ws) = 0 THEN Len(ws) ELSE intSum(ws)
         IN  [i \in DOMAIN ws |-> (100 * w1[i]) \div total]

\* mutant: a single destination is given its percentage like any other
standardizeWeights_noSingle(ws) == distributeWeights(ws)

standardizeWeights(ws) ==
    IF Len(ws) = 1 THEN <<0>> ELSE distributeWeights(ws)

-----------------------------------------------------------------------------
(* Binding resolver: conversion.go 54-152 *)

\* the default group of a RouteBindingSelector (conversion.go 68)
DefaultRouteGroup == "networking.x-k8s.io"

RouteSelectAll == "All"
RouteSelectSame == "Same"
RouteSelectSelector == "Selector"

GatewayAllowAll == "All"
GatewayAllowFromList == "FromList"
GatewayAllowSameNamespace == "SameNamespace"

(* metav1.LabelSelector: MatchLabels is the set of key=value pairs asked    *)
(* for, Invalid says that a match expression carries an operator            *)
(* LabelSelectorAsSelector rejects.  The empty selector matches everything. *)
LabelSelectorAsSelectorErr(ls) == ls.Invalid

SelectorMatches(ls, labelSet) == ls.MatchLabels \subseteq labelSet

\* getGatewaySelectorFromSpec: the Gateways field of a route spec, nil for any other spec
getGatewaySelectorFromSpec(spec) ==
    IF spec.Type \in {"HTTPRouteSpec", "TCPRouteSpec", "TLSRouteSpec"}
    THEN <<spec.Gateways>> ELSE <<>>

\* mutant: an empty group is compared as it is
selectorGroup_noDefault(rbs) == rbs.Group

\* conversion.go 66-69
selectorGroup(rbs) == IF rbs.Group = "" THEN DefaultRouteGroup ELSE rbs.Group

\* mutant: a namespace that is missing from the index passes the selector
namespacePolicyAllows_missingPasses(c, gw, rbs, nsIndex) ==
    LET from == IF rbs.Namespaces.From = "" THEN RouteSelectSame ELSE rbs.Namespaces.From
    IN  CASE from = RouteSelectAll -> TRUE
          [] from = RouteSelectSame -> gw.Namespace = c.Namespace
          [] from = RouteSelectSelector ->
                /\ ~LabelSelectorAsSelectorErr(rbs.Namespaces.Selector)
                /\ (c.Namespace \in DOMAIN nsIndex =>
                        SelectorMatches(rbs.Namespaces.Selector, nsIndex[c.Namespace].Labels))
          [] OTHER -> TRUE

\* conversion.go 84-112: the listener's namespace policy
namespacePolicyAllows(c, gw, rbs, nsIndex) ==
    LET from == IF rbs.Namespaces.From = "" THEN RouteSelectSame ELSE rbs.Namespaces.From
    IN  CASE from = RouteSelectAll -> TRUE
          [] from = RouteSelectSame -> gw.Namespace = c.Namespace
          [] from = RouteSelectSelector ->
                /\ ~LabelSelectorAsSelectorErr(rbs.Namespaces.Selector)
                /\ c.Namespace \in DOMAIN nsIndex
                /\ SelectorMatches(rbs.Namespaces.Selector, nsIndex[c.Namespace].Labels)
          [] OTHER -> TRUE

\* mutant: the SameNamespace case is missing from the switch
gatewayPolicyAllows_noSameNamespace(c, gw) ==
    LET sel == getGatewaySelectorFromSpec(c.Spec)
        gs == IF sel = <<>> THEN [Allow |-> GatewayAllowSameNamespace, GatewayRefs |-> <<>>]
              ELSE sel[1]
    IN  CASE gs.Allow = GatewayAllowFromList ->
                \E i \in DOMAIN gs.GatewayRefs :
                    /\ gs.GatewayRefs[i].Name = gw.Name
                    /\ gs.GatewayRefs[i].Namespace = gw.Namespace
          [] OTHER -> TRUE

\* mutant: a reference matches on its name or its namespace
gatewayPolicyAllows_nameOrNamespace(c, gw) ==
    LET sel == getGatewaySelectorFromSpec(c.Spec)
        gs == IF sel = <<>> THEN [Allow |-> GatewayAllowSameNamespace, GatewayRefs |-> <<>>]
              ELSE sel[1]
    IN  CASE gs.Allow = GatewayAllowAll -> TRUE
          [] gs.Allow = GatewayAllowFromList ->
                \E i \in DOMAIN gs.GatewayRefs :
                    \/ gs.GatewayRefs[i].Name = gw.Name
                    \/ gs.GatewayRefs[i].Namespace = gw.Namespace
          [] gs.Allow = GatewayAllowSameNamespace -> gw.Namespace = c.Namespace
          [] OTHER -> TRUE

\* conversion.go 114-136: the route's own gateway policy.  The selector is nil
\* only for a spec that is no route spec; an empty Allow meets no case of the switch.
gatewayPolicyAllows(c, gw) ==
    LET sel == getGatewaySelectorFromSpec(c.Spec)
        gs == IF sel = <<>> THEN [Allow |-> GatewayAllowSameNamespace, GatewayRefs |-> <<>>]
              ELSE sel[1]
    IN  CASE gs.Allow = GatewayAllowAll -> TRUE
          [] gs.Allow = GatewayAllowFromList ->
                \E i \in DOMAIN gs.GatewayRefs :
                    /\ gs.GatewayRefs[i].Name = gw.Name
                    /\ gs.GatewayRefs[i].Namespace = gw.Namespace
          [] gs.Allow = GatewayAllowSameNamespace -> gw.Namespace = c.Namespace
          [] OTHER -> TRUE

\* isRouteMatch: a series of `return false`; a match if everything passes
isRouteMatch(c, gw, rbs, nsIndex) ==
    /\ rbs.Kind = c.GroupVersionKind.Kind
    /\ selectorGroup(rbs) = c.GroupVersionKind.Group
    /\ ~LabelSelectorAsSelectorErr(rbs.Selector)
    /\ SelectorMatches(rbs.Selector, c.Labels)
    /\ namespacePolicyAllows(c, gw, rbs, nsIndex)
    /\ gatewayPolicyAllows(c, gw)

-----------------------------------------------------------------------------
(* Destinations: conversion.go 467-587, 644-655 *)

HTTPRouteFilterRequestHeaderModifier == "RequestHeaderModifier"

\* createHeadersFilter: nil for a nil filter, else the request header operations
createHeadersFilter(filter) ==
    IF filter = <<>> THEN <<>>
    ELSE <<[Add |-> filter[1].Add, Remove |-> filter[1].Remove, Set |-> filter[1].Set]>>

\* the loop over a filter list (conversion.go 326-333 and 542-549): every
\* RequestHeaderModifier filter overwrites the headers, any other type is skipped
RECURSIVE applyFilters(_, _)
applyFilters(filters, headers) ==
    IF filters = <<>> THEN headers
    ELSE applyFilters(Tail(filters),
             IF Head(filters).Type = HTTPRouteFilterRequestHeaderModifier
             THEN createHeadersFilter(Head(filters).RequestHeaderModifier)
             ELSE headers)

\* fmt.Sprintf("%s.%s.svc.%s", name, ns, domain)
serviceHost(name, ns, domain) == name \o "." \o ns \o ".svc." \o domain

\* buildDestination (HTTPRouteForwardTo): a backendRef target leaves Host empty
buildDestination(to, ns, domain) ==
    [Host |-> IF to.ServiceName # <<>> THEN serviceHost(to.ServiceName[1], ns, domain) ELSE "",
     Port |-> to.Port]

\* buildGenericDestination (RouteForwardTo)
buildGenericDestination(to, ns, domain) ==
    [Host |-> IF to.ServiceName # <<>> THEN serviceHost(to.ServiceName[1], ns, domain) ELSE "",
     Port |-> to.Port]

forwardWeights(action) == [i \in DOMAIN action |-> action[i].Weight]

\* buildTCPDestination: nil for an empty list
buildTCPDestination(action, ns, domain) ==
    IF Len(action) = 0 THEN <<>>
    ELSE LET ws == standardizeWeights(forwardWeights(action))
         IN  [i \in DOMAIN action |->
                 [Destination |-> buildGenericDestination(action[i], ns, domain),
                  Weight |-> ws[i]]]

\* buildHTTPDestination: nil for a nil list; an empty list gives an empty list
buildHTTPDestination(action, ns, domain) ==
    LET ws == standardizeWeights(forwardWeights(action))
    IN  [i \in DOMAIN action |->
            [Destination |-> buildDestination(action[i], ns, domain),
             Weight |-> ws[i],
             Headers |-> applyFilters(action[i].Filters, <<>>)]]

-----------------------------------------------------------------------------
(* Names and constants of the packages the converter imports *)

ControllerName == "istio.io/gateway-controller"

\* constants.KubernetesGatewayName: the suffix of every derived config name
KubernetesGatewayName == "istio-autogenerated-k8s-gateway"

\* constants.IstioMeshGateway
IstioMeshGateway == "mesh"

experimentalMeshGatewayName == "mesh"

\* kstatus.StatusTrue
StatusTrue == "True"

\* gvk.Gateway, gvk.VirtualService, gvk.DestinationRule
GvkGateway == [Group |-> "networking.istio.io", Kind |-> "Gateway"]
GvkVirtualService == [Group |-> "networking.istio.io", Kind |-> "VirtualService"]
GvkDestinationRule == [Group |-> "networking.istio.io", Kind |-> "DestinationRule"]

\* gvk.Service.CanonicalGroup(), gvk.Service.Kind, and the same of gvk.Secret
ServiceCanonicalGroup == "core"
ServiceKind == "Service"
SecretCanonicalGroup == "core"
SecretKind == "Secret"

emptyOrEqual(have, expected) == have = "" \/ have = expected

\* strings.Split(s, sep) for a separator of one character
RECURSIVE splitFrom(_, _, _, _)
splitFrom(s, sep, start, i) ==
    IF i > Len(s) THEN <<SubSeq(s, start, Len(s))>>
    ELSE IF SubSeq(s, i, i) = sep
         THEN <<SubSeq(s, start, i - 1)>> \o splitFrom(s, sep, i + 1, i + 1)
         ELSE splitFrom(s, sep, start, i + 1)

Split(s, sep) == splitFrom(s, sep, 1, 1)

-----------------------------------------------------------------------------
(* Status reconciler: kstatus.ConditionallyUpdateCondition *)

Condition(type, generation, t, reason, message) ==
    [Type |-> type, Status |-> StatusTrue, ObservedGeneration |-> generation,
     LastTransitionTime |-> t, Reason |-> reason, Message |-> message]

\* the first condition of the type, 0 if there is none
RECURSIVE conditionIndex(_, _, _)
conditionIndex(conditions, type, i) ==
    IF i > Len(conditions) THEN 0
    ELSE IF conditions[i].Type = type THEN i
         ELSE conditionIndex(conditions, type, i + 1)

\* everything but the transition timestamp
SameCondition(a, b) ==
    /\ a.Type = b.Type
    /\ a.Status = b.Status
    /\ a.Reason = b.Reason
    /\ a.Message = b.Message
    /\ a.ObservedGeneration = b.ObservedGeneration

(* An existing condition of the type is replaced, in place, only if status, *)
(* reason, message or observed generation differ; equal content leaves the  *)
(* list as it is; a type not yet in the list is appended.                   *)
ConditionallyUpdateCondition(conditions, condition) ==
    LET idx == conditionIndex(conditions, condition.Type, 1)
    IN  IF idx = 0 THEN Append(conditions, condition)
        ELSE IF SameCondition(conditions[idx], condition) THEN conditions
             ELSE [conditions EXCEPT ![idx] = condition]

-----------------------------------------------------------------------------
(* Gateway converter: conversion.go 154-182, 199-212, 700-911 *)

toRouteKey(c) == [Gvk |-> c.GroupVersionKind, Name |-> c.Name, Namespace |-> c.Namespace]

fetchHTTPRoutes(r, gw, rbs) ==
    SelectSeq(r.HTTPRoute, LAMBDA http : isRouteMatch(http, gw, rbs, r.Namespaces))

fetchTCPRoutes(r, gw, rbs) ==
    SelectSeq(r.TCPRoute, LAMBDA tcp : isRouteMatch(tcp, gw, rbs, r.Namespaces))

fetchTLSRoutes(r, gw, rbs) ==
    SelectSeq(r.TLSRoute, LAMBDA tls : isRouteMatch(tls, gw, rbs, r.Namespaces))

\* mutant: every gateway class is taken, whoever controls it
ownedClass_any(obj) == TRUE

\* conversion.go 705
ownedClass(obj) == obj.Spec.Controller = ControllerName

\* getGatewayClasses, the returned set of class names
getGatewayClasses(r) ==
    {r.GatewayClass[i].Name : i \in {j \in DOMAIN r.GatewayClass : ownedClass(r.GatewayClass[j])}}

\* getGatewayClasses, the gateway classes after the status mutation (710-721)
gatewayClassesAfter(r, t) ==
    [i \in DOMAIN r.GatewayClass |->
        LET obj == r.GatewayClass[i]
        IN  IF ownedClass(obj)
            THEN [obj EXCEPT !.Status.Conditions =
                     ConditionallyUpdateCondition(@,
                         Condition("Admitted", obj.Generation, t,
                                   "Handled", "Handled by Istio controller"))]
            ELSE obj]

\* conversion.go 733: the gateway's class is one of ours
admitted(r, obj) == obj.Spec.GatewayClassName \in getGatewayClasses(r)

\* make([]k8s.ListenerStatus, n): zero values
ZeroListenerStatus == [Port |-> 0, Protocol |-> "", Hostname |-> <<>>, Conditions |-> <<>>]

\* mutant: the listener status keeps the length it has
resetListenerStatus_never(gs, kgw) == [gs EXCEPT !.Addresses = <<>>]

\* conversion.go 737-746: one listener status per listener
resetListenerStatus(gs, kgw) ==
    [gs EXCEPT !.Addresses = <<>>,
               !.Listeners = IF Len(@) # Len(kgw.Listeners)
                             THEN [i \in DOMAIN kgw.Listeners |-> ZeroListenerStatus]
                             ELSE @]

\* mutant: an entry that already names a port keeps port, protocol and hostname
listenerStatus_keep(l, entry, generation, t) ==
    [Port |-> IF entry.Port # 0 THEN entry.Port ELSE l.Port,
     Protocol |-> IF entry.Port # 0 THEN entry.Protocol ELSE l.Protocol,
     Hostname |-> IF entry.Port # 0 THEN entry.Hostname ELSE l.Hostname,
     Conditions |-> ConditionallyUpdateCondition(entry.Conditions,
                        Condition("Ready", generation, t, "ListenerReady", "No error found"))]

\* conversion.go 750-770: the status entry of listener l, from the entry at its index
listenerStatus(l, entry, generation, t) ==
    [Port |-> l.Port, Protocol |-> l.Protocol, Hostname |-> l.Hostname,
     Conditions |-> ConditionallyUpdateCondition(entry.Conditions,
                        Condition("Ready", generation, t, "ListenerReady", "No error found"))]

\* mutant: the messages carry the time of the pass
gatewayConditions_stamped(conditions, generation, t) ==
    ConditionallyUpdateCondition(
        ConditionallyUpdateCondition(conditions,
            Condition("Ready", generation, t, "ListenersValid",
                      "Listeners valid at " \o ToString(t))),
        Condition("Scheduled", generation, t, "ResourcesAvailable",
                  "Resources available at " \o ToString(t)))

\* mutant: only the Ready condition is reconciled
gatewayConditions_readyOnly(conditions, generation, t) ==
    ConditionallyUpdateCondition(conditions,
        Condition("Ready", generation, t, "ListenersValid", "Listeners valid"))

\* conversion.go 815-837
gatewayConditions(conditions, generation, t) ==
    ConditionallyUpdateCondition(
        ConditionallyUpdateCondition(conditions,
            Condition("Ready", generation, t, "ListenersValid", "Listeners valid")),
        Condition("Scheduled", generation, t, "ResourcesAvailable", "Resources available"))

\* the status of an admitted gateway after the three mutations of convertGateway
gatewayStatusAfter(obj, t) ==
    LET gs1 == resetListenerStatus(obj.Status, obj.Spec)
        gs2 == [gs1 EXCEPT !.Listeners =
                   [i \in DOMAIN obj.Spec.Listeners |->
                       listenerStatus(obj.Spec.Listeners[i], gs1.Listeners[i],
                                      obj.Generation, t)]]
    IN  [gs2 EXCEPT !.Conditions = gatewayConditions(@, obj.Generation, t)]

buildSecretReference(ref) ==
    IF ~emptyOrEqual(ref.Group, SecretCanonicalGroup) \/ ~emptyOrEqual(ref.Kind, SecretKind)
    THEN "" ELSE ref.Name

\* buildTLS: nil without TLS, and nil for Terminate without a certificate;
\* a mode that is no case of the switch leaves Mode at its zero value, PASSTHROUGH
buildTLS(tls) ==
    IF tls = <<>> THEN <<>>
    ELSE CASE tls[1].Mode \in {"", "Terminate"} ->
                IF tls[1].CertificateRef = <<>> THEN <<>>
                ELSE <<[HttpsRedirect |-> FALSE, Mode |-> "SIMPLE",
                        CredentialName |-> buildSecretReference(tls[1].CertificateRef[1])]>>
           [] OTHER -> <<[HttpsRedirect |-> FALSE, Mode |-> "PASSTHROUGH",
                          CredentialName |-> ""]>>

\* mutant: the hostname is passed as it is, unset gives no host
buildHostnameMatch_literal(hostname) == hostname

buildHostnameMatch(hostname) ==
    IF hostname = <<>> \/ hostname = <<"">> THEN <<"*">> ELSE <<hostname[1]>>

\* strings.ToLower on the protocol names of the API
ToLower(str) ==
    CASE str = "HTTP" -> "http"
      [] str = "HTTPS" -> "https"
      [] str = "TCP" -> "tcp"
      [] str = "TLS" -> "tls"
      [] OTHER -> str

\* conversion.go 747
gatewayName(obj) == obj.Name \o "-" \o KubernetesGatewayName

\* conversion.go 771-783
buildServer(obj, l) ==
    [Hosts |-> buildHostnameMatch(l.Hostname),
     Port |-> [Number |-> l.Port, Protocol |-> l.Protocol,
               Name |-> ToLower(l.Protocol) \o "-" \o ToString(l.Port) \o "-gateway-"
                        \o obj.Name \o "-" \o obj.Namespace],
     Tls |-> buildTLS(l.TLS)]

\* mutant: the servers are put in front of the list, the last listener first
gatewayConfig_reversed(r, obj) ==
    [GroupVersionKind |-> GvkGateway, Name |-> gatewayName(obj),
     Namespace |-> obj.Namespace, Domain |-> r.Domain,
     Spec |-> [Servers |-> [i \in DOMAIN obj.Spec.Listeners |->
                               buildServer(obj,
                                   obj.Spec.Listeners[Len(obj.Spec.Listeners) + 1 - i])],
               Selector |-> "istio=ingressgateway"]]

\* conversion.go 801-814
gatewayConfig(r, obj) ==
    [GroupVersionKind |-> GvkGateway, Name |-> gatewayName(obj),
     Namespace |-> obj.Namespace, Domain |-> r.Domain,
     Spec |-> [Servers |-> [i \in DOMAIN obj.Spec.Listeners |->
                               buildServer(obj, obj.Spec.Listeners[i])],
               Selector |-> "istio=ingressgateway"]]

\* conversion.go 787-799: the appends to routeToGateway one listener causes, in order
listenerBindings(r, obj, l) ==
    LET id == obj.Namespace \o "/" \o gatewayName(obj)
        bind(found) == [i \in DOMAIN found |-> [k |-> toRouteKey(found[i]), gw |-> id]]
    IN  bind(fetchHTTPRoutes(r, obj, l.Routes))
            \o bind(fetchTCPRoutes(r, obj, l.Routes))
            \o bind(fetchTLSRoutes(r, obj, l.Routes))

\* mutant: the mesh routes are looked for only when the snapshot has a gateway
fetchMeshRoutes_needsGateway(r) ==
    IF r.Gateway = <<>> THEN <<>>
    ELSE FlattenSeq([i \in DOMAIN r.HTTPRoute |->
             IF \E j \in DOMAIN r.HTTPRoute[i].Spec.Gateways.GatewayRefs :
                    r.HTTPRoute[i].Spec.Gateways.GatewayRefs[j].Name = "mesh"
             THEN <<toRouteKey(r.HTTPRoute[i])>> ELSE <<>>])

\* fetchMeshRoutes: one key per reference named mesh, of HTTP routes only
fetchMeshRoutes(r) ==
    FlattenSeq([i \in DOMAIN r.HTTPRoute |->
        LET sel == getGatewaySelectorFromSpec(r.HTTPRoute[i].Spec)
        IN  IF sel = <<>> THEN <<>>
            ELSE FlattenSeq([j \in DOMAIN sel[1].GatewayRefs |->
                     IF sel[1].GatewayRefs[j].Name = experimentalMeshGatewayName
                     THEN <<toRouteKey(r.HTTPRoute[i])>> ELSE <<>>])])

\* mutant: the mesh routes are appended before the listeners are walked
routeBindings_meshFirst(r) ==
    [i \in DOMAIN fetchMeshRoutes(r) |->
        [k |-> fetchMeshRoutes(r)[i], gw |-> experimentalMeshGatewayName]]
    \o FlattenSeq([i \in DOMAIN r.Gateway |->
        IF admitted(r, r.Gateway[i])
        THEN FlattenSeq([j \in DOMAIN r.Gateway[i].Spec.Listeners |->
                 listenerBindings(r, r.Gateway[i], r.Gateway[i].Spec.Listeners[j])])
        ELSE <<>>])

\* convertGateway, the appends to routeToGateway in program order: the listeners
\* of the admitted gateways, then the mesh routes (conversion.go 731-843)
routeBindings(r) ==
    FlattenSeq([i \in DOMAIN r.Gateway |->
        IF admitted(r, r.Gateway[i])
        THEN FlattenSeq([j \in DOMAIN r.Gateway[i].Spec.Listeners |->
                 listenerBindings(r, r.Gateway[i], r.Gateway[i].Spec.Listeners[j])])
        ELSE <<>>])
    \o [i \in DOMAIN fetchMeshRoutes(r) |->
           [k |-> fetchMeshRoutes(r)[i], gw |-> experimentalMeshGatewayName]]

\* routeToGateway[k] = append(routeToGateway[k], gw) for every binding in order
routeToGatewayOf(bindings) ==
    [k \in {bindings[i].k : i \in DOMAIN bindings} |->
        LET mine == SelectSeq(bindings, LAMBDA b : b.k = k)
        IN  [i \in DOMAIN mine |-> mine[i].gw]]

\* convertGateway: the configs, the ownership map, and the gateway classes and
\* gateways with the status the pass leaves on them
convertGateway(r, t) ==
    [result |-> FlattenSeq([i \in DOMAIN r.Gateway |->
                    IF admitted(r, r.Gateway[i])
                    THEN <<gatewayConfig(r, r.Gateway[i])>> ELSE <<>>]),
     routeToGateway |-> routeToGatewayOf(routeBindings(r)),
     GatewayClass |-> gatewayClassesAfter(r, t),
     Gateway |-> [i \in DOMAIN r.Gateway |->
                    IF admitted(r, r.Gateway[i])
                    THEN [r.Gateway[i] EXCEPT !.Status = gatewayStatusAfter(r.Gateway[i], t)]
                    ELSE r.Gateway[i]]]

-----------------------------------------------------------------------------
(* Route converter: conversion.go 266-465, 488-515, 657-698 *)

\* mutant: the entries are appended to the ones the route status already holds
createRouteStatus_append(gateways, obj, t) ==
    obj.Status.Gateways \o
    [i \in DOMAIN gateways |->
        [GatewayRef |-> [Name |-> gateways[i], Namespace |-> "default"],
         Conditions |-> <<Condition("Admitted", obj.Generation, t,
                                    "RouteAdmitted", "Route admitted")>>]]

\* mutant: the two parts of the identifier are taken the other way round
createRouteStatus_swapped(gateways, obj, t) ==
    [i \in DOMAIN gateways |->
        [GatewayRef |->
            IF gateways[i] = IstioMeshGateway
            THEN [Name |-> experimentalMeshGatewayName, Namespace |-> "default"]
            ELSE LET parts == Split(gateways[i], "/")
                 IN  [Name |-> parts[1], Namespace |-> parts[2]],
         Conditions |-> <<Condition("Admitted", obj.Generation, t,
                                    "RouteAdmitted", "Route admitted")>>]]

\* createRouteStatus: one entry per owning gateway
createRouteStatus(gateways, obj, t) ==
    [i \in DOMAIN gateways |->
        [GatewayRef |->
            IF gateways[i] = IstioMeshGateway
            THEN [Name |-> experimentalMeshGatewayName, Namespace |-> "default"]
            ELSE LET parts == Split(gateways[i], "/")
                 IN  [Name |-> parts[2], Namespace |-> parts[1]],
         Conditions |-> <<Condition("Admitted", obj.Generation, t,
                                    "RouteAdmitted", "Route admitted")>>]]

hostnameToStringList(h) == h

RegexMetaChars == {"\\", ".", "+", "*", "?", "(", ")", "|", "[", "]", "{", "}", "^", "$"}

\* regexp.QuoteMeta
RECURSIVE QuoteMeta(_)
QuoteMeta(str) ==
    IF Len(str) = 0 THEN ""
    ELSE (IF SubSeq(str, 1, 1) \in RegexMetaChars THEN "\\" ELSE "")
             \o SubSeq(str, 1, 1) \o QuoteMeta(SubSeq(str, 2, Len(str)))

\* strings.TrimSuffix(s, "/")
TrimSlash(str) ==
    IF Len(str) >= 1 /\ SubSeq(str, Len(str), Len(str)) = "/"
    THEN SubSeq(str, 1, Len(str) - 1) ELSE str

prefixMatchRegex == "((\\/).*)?"

\* createURIMatch: nil for a path match type that is none of the known ones
createURIMatch(match) ==
    CASE match.Path.Type \in {"", "ImplementationSpecific", "Prefix"} ->
            <<[MatchType |-> "Regex",
               Value |-> QuoteMeta(TrimSlash(match.Path.Value)) \o prefixMatchRegex]>>
      [] match.Path.Type = "Exact" -> <<[MatchType |-> "Exact", Value |-> match.Path.Value]>>
      [] match.Path.Type = "RegularExpression" ->
            <<[MatchType |-> "Regex", Value |-> match.Path.Value]>>
      [] OTHER -> <<>>

\* createHeadersMatch: nil without headers and for an unsupported match type
createHeadersMatch(match) ==
    IF match.Headers = <<>> THEN <<>>
    ELSE IF match.Headers[1].Type \in {"", "Exact", "ImplementationSpecific"}
         THEN <<[k \in DOMAIN match.Headers[1].Values |->
                    [MatchType |-> "Exact", Value |-> match.Headers[1].Values[k]]]>>
         ELSE <<>>

\* mutant: the destinations are built in the namespace of the first owning
\* gateway
buildHTTPVirtualServices_gatewayNs(obj, gateways, domain) ==
    <<[GroupVersionKind |-> GvkVirtualService,
       Name |-> obj.Name \o "-" \o KubernetesGatewayName,
       Namespace |-> obj.Namespace, Domain |-> domain,
       Spec |-> [Hosts |-> hostnameToStringList(obj.Spec.Hostnames),
                 Gateways |-> gateways,
                 Http |-> [i \in DOMAIN obj.Spec.Rules |->
                     LET rule == obj.Spec.Rules[i]
                     IN  [Match |-> [j \in DOMAIN rule.Matches |->
                                        [Uri |-> createURIMatch(rule.Matches[j]),
                                         Headers |-> createHeadersMatch(rule.Matches[j])]],
                          Headers |-> applyFilters(rule.Filters, <<>>),
                          Route |-> buildHTTPDestination(rule.ForwardTo,
                                        IF gateways[1] = IstioMeshGateway THEN "default"
                                        ELSE Split(gateways[1], "/")[1],
                                        domain)]]]]>>

\* buildHTTPVirtualServices, the configs (conversion.go 313-353)
buildHTTPVirtualServices(obj, gateways, domain) ==
    <<[GroupVersionKind |-> GvkVirtualService,
       Name |-> obj.Name \o "-" \o KubernetesGatewayName,
       Namespace |-> obj.Namespace, Domain |-> domain,
       Spec |-> [Hosts |-> hostnameToStringList(obj.Spec.Hostnames),
                 Gateways |-> gateways,
                 Http |-> [i \in DOMAIN obj.Spec.Rules |->
                     LET rule == obj.Spec.Rules[i]
                     IN  [Match |-> [j \in DOMAIN rule.Matches |->
                                        [Uri |-> createURIMatch(rule.Matches[j]),
                                         Headers |-> createHeadersMatch(rule.Matches[j])]],
                          Headers |-> applyFilters(rule.Filters, <<>>),
                          Route |-> buildHTTPDestination(rule.ForwardTo, obj.Namespace,
                                                         domain)]]]]>>

\* buildTCPMatch: the API has no TCP match the converter supports
buildTCPMatch(match) == <<>>

\* buildTLSMatch: an empty match list becomes an explicit match-all
buildTLSMatch(match) ==
    IF Len(match) = 0 THEN <<[SniHosts |-> <<"*">>]>>
    ELSE [i \in DOMAIN match |-> [SniHosts |-> match[i].SNIs]]

buildTCPVirtualService(obj, gateways, domain) ==
    [GroupVersionKind |-> GvkVirtualService,
     Name |-> obj.Name \o "-tcp-" \o KubernetesGatewayName,
     Namespace |-> obj.Namespace, Domain |-> domain,
     Spec |-> [Hosts |-> <<"*">>, Gateways |-> gateways,
               Tcp |-> [i \in DOMAIN obj.Spec.Rules |->
                   [Match |-> buildTCPMatch(obj.Spec.Rules[i].Matches),
                    Route |-> buildTCPDestination(obj.Spec.Rules[i].ForwardTo,
                                                  obj.Namespace, domain)]]]]

buildTLSVirtualService(obj, gateways, domain) ==
    [GroupVersionKind |-> GvkVirtualService,
     Name |-> obj.Name \o "-tls-" \o KubernetesGatewayName,
     Namespace |-> obj.Namespace, Domain |-> domain,
     Spec |-> [Hosts |-> <<"*">>, Gateways |-> gateways,
               Tls |-> [i \in DOMAIN obj.Spec.Rules |->
                   [Match |-> buildTLSMatch(obj.Spec.Rules[i].Matches),
                    Route |-> buildTCPDestination(obj.Spec.Rules[i].ForwardTo,
                                                  obj.Namespace, domain)]]]]

\* mutant: an HTTP route that is no key of the ownership map is converted too,
\* with no gateways
convertVirtualService_unowned(r, routeMap) ==
    FlattenSeq([i \in DOMAIN r.HTTPRoute |->
        buildHTTPVirtualServices(r.HTTPRoute[i],
            IF toRouteKey(r.HTTPRoute[i]) \in DOMAIN routeMap
            THEN routeMap[toRouteKey(r.HTTPRoute[i])] ELSE <<>>, r.Domain)])

\* convertVirtualService: the TCP routes, then the TLS routes, then the HTTP
\* routes; a route that is no key of the ownership map is skipped
convertVirtualService(r, routeMap) ==
    FlattenSeq([i \in DOMAIN r.TCPRoute |->
        IF toRouteKey(r.TCPRoute[i]) \in DOMAIN routeMap
        THEN <<buildTCPVirtualService(r.TCPRoute[i], routeMap[toRouteKey(r.TCPRoute[i])],
                                      r.Domain)>>
        ELSE <<>>])
    \o FlattenSeq([i \in DOMAIN r.TLSRoute |->
        IF toRouteKey(r.TLSRoute[i]) \in DOMAIN routeMap
        THEN <<buildTLSVirtualService(r.TLSRoute[i], routeMap[toRouteKey(r.TLSRoute[i])],
                                      r.Domain)>>
        ELSE <<>>])
    \o FlattenSeq([i \in DOMAIN r.HTTPRoute |->
        IF toRouteKey(r.HTTPRoute[i]) \in DOMAIN routeMap
        THEN buildHTTPVirtualServices(r.HTTPRoute[i], routeMap[toRouteKey(r.HTTPRoute[i])],
                                      r.Domain)
        ELSE <<>>])

\* mutant: the write of weights[i] = 1 for weights that are all zero
\* (conversion.go 600-602) reaches the forwarding targets of the route
routesAfter_writesWeights(objs, routeMap, t) ==
    [i \in DOMAIN objs |->
        IF toRouteKey(objs[i]) \in DOMAIN routeMap
        THEN [objs[i] EXCEPT
                 !.Status.Gateways =
                     createRouteStatus(routeMap[toRouteKey(objs[i])], objs[i], t),
                 !.Spec.Rules =
                     [j \in DOMAIN @ |->
                         [@[j] EXCEPT !.ForwardTo =
                             IF Len(@) # 1 /\ intSum(forwardWeights(@)) = 0
                             THEN [k \in DOMAIN @ |-> [@[k] EXCEPT !.Weight = 1]]
                             ELSE @]]]
        ELSE objs[i]]

\* the routes of one kind after build*VirtualService wrote their status
\* (conversion.go 306-311, 396-401, 433-438)
routesAfter(objs, routeMap, t) ==
    [i \in DOMAIN objs |->
        IF toRouteKey(objs[i]) \in DOMAIN routeMap
        THEN [objs[i] EXCEPT !.Status.Gateways =
                 createRouteStatus(routeMap[toRouteKey(objs[i])], objs[i], t)]
        ELSE objs[i]]

-----------------------------------------------------------------------------
(* Destination rules and the orchestrator: conversion.go 190-197, 214-264 *)

\* conversion.go 225-260: the config of backend reference i of a policy, none
\* for a reference that is no Service
destinationRuleOf(r, obj, i) ==
    LET bp == obj.Spec
        ref == bp.BackendRefs[i]
        tls == IF bp.TLS # <<>> /\ bp.TLS[1].CertificateAuthorityRef # <<>>
               THEN <<[CredentialName |->
                          buildSecretReference(bp.TLS[1].CertificateAuthorityRef[1]),
                       Mode |-> "SIMPLE"]>>
               ELSE <<>>
    IN  IF emptyOrEqual(ref.Group, ServiceCanonicalGroup) /\ emptyOrEqual(ref.Kind, ServiceKind)
        THEN <<[GroupVersionKind |-> GvkDestinationRule,
                Name |-> obj.Name \o "-" \o ToString(i - 1) \o "-" \o KubernetesGatewayName,
                Namespace |-> obj.Namespace, Domain |-> r.Domain,
                Spec |-> [Host |-> serviceHost(ref.Name, obj.Namespace, r.Domain),
                          TrafficPolicy |->
                              [Tls |-> IF ref.Port = <<>> THEN tls ELSE <<>>,
                               PortLevelSettings |->
                                   IF ref.Port # <<>> /\ tls # <<>>
                                   THEN <<[Port |-> ref.Port[1], Tls |-> tls[1]]>>
                                   ELSE <<>>]]]>>
        ELSE <<>>

convertDestinationRule(r) ==
    FlattenSeq([p \in DOMAIN r.BackendPolicy |->
        FlattenSeq([i \in DOMAIN r.BackendPolicy[p].Spec.BackendRefs |->
            destinationRuleOf(r, r.BackendPolicy[p], i)])])

\* conversion.go 752 and 763: gs.Listeners[i] is indexed with the index of every
\* listener, after the first status mutation
listenerIndexInRange(obj) ==
    LET gs1 == resetListenerStatus(obj.Status, obj.Spec)
    IN  \A i \in DOMAIN obj.Spec.Listeners : i \in DOMAIN gs1.Listeners

\* conversion.go 366-368: s[0] and s[1] of the split of every owner but mesh
splitIndexInRange(gateways) ==
    \A i \in DOMAIN gateways :
        gateways[i] # IstioMeshGateway => Len(Split(gateways[i], "/")) >= 2

\* no index of a pass over r is out of range: the pass returns
convertCompletes(r) ==
    /\ \A i \in DOMAIN r.Gateway :
           admitted(r, r.Gateway[i]) => listenerIndexInRange(r.Gateway[i])
    /\ LET routeMap == routeToGatewayOf(routeBindings(r))
       IN  \A k \in DOMAIN routeMap : splitIndexInRange(routeMap[k])

\* convertResources at time t: the output bundle, the ownership map it was built
\* from, and the snapshot with the status the pass leaves on its resources
convertResources(r, t) ==
    LET g == convertGateway(r, t)
    IN  [out |-> [Gateway |-> g.result,
                  VirtualService |-> convertVirtualService(r, g.routeToGateway),
                  DestinationRule |-> convertDestinationRule(r)],
         routeMap |-> g.routeToGateway,
         r |-> [r EXCEPT !.GatewayClass = g.GatewayClass,
                         !.Gateway = g.Gateway,
                         !.TCPRoute = routesAfter(@, g.routeToGateway, t),
                         !.TLSRoute = routesAfter(@, g.routeToGateway, t),
                         !.HTTPRoute = routesAfter(@, g.routeToGateway, t)]]

-----------------------------------------------------------------------------
(* SpecWeights: standardizeWeights and the destination builders on every    *)
(* weight sequence within the bounds                                        *)

\* Only the order of the noise of two weights is read (Float64Less): two levels
\* give every order of a pair of tied entries (below, equal, above)
NoiseVals == {0, 1}

FpNoises == [0..MaxWeight -> NoiseVals]

ServiceNames == <<"reviews", "ratings", "details", "productpage", "httpbin", "sleep">>

httpForwardTo(ws) ==
    [i \in DOMAIN ws |->
        [ServiceName |-> <<ServiceNames[i]>>, BackendRef |-> <<>>, Port |-> <<>>,
         Weight |-> ws[i], Filters |-> <<>>]]

tcpForwardTo(ws) ==
    [i \in DOMAIN ws |->
        [ServiceName |-> <<ServiceNames[i]>>, BackendRef |-> <<>>, Port |-> <<>>,
         Weight |-> ws[i]]]

\* the variables of the other specifications, unused
IdleWeights ==
    /\ weights = <<>>
    /\ results = <<>>
    /\ dests = <<>>
    /\ wpc = "idle"

IdleMatch ==
    /\ cfg = <<>>
    /\ gateway = <<>>
    /\ routes = <<>>
    /\ namespaces = <<>>
    /\ matched = FALSE
    /\ mpc = "idle"

IdleConv ==
    /\ resources = <<>>
    /\ out = <<>>
    /\ ownership = <<>>
    /\ now = 0
    /\ edits = 0
    /\ converted = FALSE

(* Weight sequences whose sum is above 100, so that two different weights   *)
(* have the same rounded percentage.  No 100*w/total of them is within 1/203 *)
(* of an integer, so int() of the float64 is the exact floor, and remainders *)
(* of different weights differ by more than any rounding.                    *)
WideWeights == {<<67, 68, 68>>, <<68, 67, 68>>, <<68, 68, 67>>}

InitWeights ==
    /\ fpNoise \in FpNoises
    /\ weights \in SeqsUpTo(0..MaxWeight, MaxLen) \cup WideWeights
    /\ results = <<>>
    /\ dests = <<>>
    /\ wpc = "input"
    /\ IdleMatch
    /\ IdleConv

Standardize ==
    /\ wpc = "input"
    /\ Len(weights) >= 1
    /\ results' = standardizeWeights(weights)
    /\ wpc' = "standardized"
    /\ UNCHANGED <<fpNoise, weights, dests, matchVars, convVars>>

BuildHTTPDestination ==
    /\ wpc = "standardized"
    /\ dests' = buildHTTPDestination(httpForwardTo(weights), "bookinfo", "cluster.local")
    /\ wpc' = "http"
    /\ UNCHANGED <<fpNoise, weights, results, matchVars, convVars>>

BuildTCPDestination ==
    /\ wpc = "standardized"
    /\ dests' = buildTCPDestination(tcpForwardTo(weights), "bookinfo", "cluster.local")
    /\ wpc' = "tcp"
    /\ UNCHANGED <<fpNoise, weights, results, matchVars, convVars>>

NextWeights == Standardize \/ BuildHTTPDestination \/ BuildTCPDestination

SpecWeights == InitWeights /\ [][NextWeights]_vars

-----------------------------------------------------------------------------
(* Claims on the weight normalizer, under SpecWeights *)

AllZero(ws) == \A i \in DOMAIN ws : ws[i] = 0

\* C2: for every weight sequence of length >= 2 with at least one positive
\* weight, standardizeWeights returns as many entries as it was given and they
\* sum to exactly 100.
C2_SumIs100 ==
    (wpc # "input" /\ Len(weights) >= 2 /\ ~AllZero(weights))
        => (Len(results) = Len(weights) /\ intSum(results) = 100)

C2_Witness ==
    /\ wpc = "standardized"
    /\ weights = <<1, 3, 3>>
    /\ intSum(results) = 100
    /\ results # <<14, 42, 42>>

\* the exact rounded-down percentage and the exact remainder of entry i
FloorOf(ws, i) == (100 * ws[i]) \div intSum(ws)

RemainderOf(ws, i) == (100 * ws[i]) % intSum(ws)

Incremented(ws, rs) == {i \in DOMAIN ws : rs[i] = FloorOf(ws, i) + 1}

\* C23: for a weight sequence of length >= 2 with positive sum S, entry i of
\* the result is floor(100*w_i/S) or that plus one, exactly 100 minus the sum
\* of the floors entries are incremented, and an entry is incremented only if
\* every entry with a strictly larger remainder 100*w_i mod S is incremented.
C23_LargestRemainderFirst ==
    (wpc # "input" /\ Len(weights) >= 2 /\ intSum(weights) > 0) =>
        /\ \A i \in DOMAIN weights :
               results[i] \in {FloorOf(weights, i), FloorOf(weights, i) + 1}
        /\ Cardinality(Incremented(weights, results))
               = 100 - intSum([i \in DOMAIN weights |-> FloorOf(weights, i)])
        /\ \A i \in Incremented(weights, results) : \A j \in DOMAIN weights :
               RemainderOf(weights, j) > RemainderOf(weights, i)
                   => j \in Incremented(weights, results)

\* two points to distribute over three entries, the one of least remainder first
C23_Witness ==
    /\ wpc = "standardized"
    /\ weights = <<1, 3, 3>>
    /\ results = <<14, 43, 43>>

\* C29: in a weight sequence of length >= 2 with a positive weight, every entry
\* of weight zero gets exactly 0.
C29_ZeroStaysZero ==
    (wpc # "input" /\ Len(weights) >= 2 /\ ~AllZero(weights)) =>
        \A i \in DOMAIN weights : weights[i] = 0 => results[i] = 0

\* a zero weight first, and a point to distribute
C29_Witness ==
    /\ wpc = "standardized"
    /\ weights = <<0, 1, 2>>
    /\ results = <<0, 33, 67>>

\* C30: on a sequence of length >= 2, a smaller weight never gets a larger
\* result than a larger weight, and equal weights get results that differ by
\* at most 1.
C30_OrderPreserving ==
    (wpc # "input" /\ Len(weights) >= 2) =>
        \A i, j \in DOMAIN weights :
            /\ weights[i] < weights[j] => results[i] <= results[j]
            /\ weights[i] = weights[j] => results[i] - results[j] \in {-1, 0, 1}

\* two different weights with the same rounded percentage, and a point to
\* distribute: it goes to the larger weight, not to the first entry
C30_Witness ==
    /\ wpc = "standardized"
    /\ weights = <<67, 68, 68>>
    /\ results = <<33, 34, 33>>

\* C3: an all-zero weight sequence of length N >= 2 is split uniformly: N
\* entries that sum to 100, each floor(100/N) or floor(100/N)+1; N=4 gives
\* 25,25,25,25 and N=3 gives 34,33,33.
C3_AllZeroUniform ==
    (wpc # "input" /\ Len(weights) >= 2 /\ AllZero(weights))
        => /\ Len(results) = Len(weights)
           /\ intSum(results) = 100
           /\ \A i \in DOMAIN results :
                  results[i] \in {100 \div Len(weights), 100 \div Len(weights) + 1}
           /\ (Len(weights) = 4 => results = <<25, 25, 25, 25>>)
           /\ (Len(weights) = 3 => results = <<34, 33, 33>>)

C3_Witness ==
    /\ wpc = "standardized"
    /\ weights = <<0, 0, 0>>
    /\ results = <<34, 33, 33>>

\* C4: a weight sequence of length 1 gives <<0>> whatever the weight is, and
\* the single destination built from it carries weight 0.
C4_SingleIsZero ==
    Len(weights) = 1
        => /\ (wpc # "input" => results = <<0>>)
           /\ (wpc \in {"http", "tcp"} => (Len(dests) = 1 /\ dests[1].Weight = 0))

C4_Witness ==
    /\ wpc = "http"
    /\ weights = <<3>>
    /\ results = <<0>>
    /\ dests[1].Weight = 0
    /\ dests[1].Destination.Host = "reviews.bookinfo.svc.cluster.local"

-----------------------------------------------------------------------------
(* SpecMatch: isRouteMatch on every combination of route, gateway, listener *)
(* selector and namespace index drawn from the menus below                  *)

NsNames == {"ns1", "ns2"}

RouteKinds == {"HTTPRoute", "TCPRoute"}

SpecTypeOf(kind) == kind \o "Spec"

LabelSelectors ==
    {[MatchLabels |-> {}, Invalid |-> FALSE],
     [MatchLabels |-> {"app=a"}, Invalid |-> FALSE],
     [MatchLabels |-> {"app=b"}, Invalid |-> FALSE],
     [MatchLabels |-> {}, Invalid |-> TRUE]}

NamespaceSelectors ==
    {[MatchLabels |-> {}, Invalid |-> FALSE],
     [MatchLabels |-> {"env=prod"}, Invalid |-> FALSE],
     [MatchLabels |-> {}, Invalid |-> TRUE]}

\* RouteNamespaces: the policy, with a selector where the policy reads one
RouteNamespacesMenu ==
    {[From |-> f, Selector |-> [MatchLabels |-> {}, Invalid |-> FALSE]] :
        f \in {"", RouteSelectAll, RouteSelectSame}}
    \cup {[From |-> RouteSelectSelector, Selector |-> sel] : sel \in NamespaceSelectors}

NamespaceIndexes ==
    {[n \in NsNames |-> [Labels |-> IF n = "ns1" THEN {"env=prod"} ELSE {}]],
     [n \in NsNames |-> [Labels |-> IF n = "ns2" THEN {"env=prod"} ELSE {}]],
     [n \in {"ns1"} |-> [Labels |-> {"env=prod"}]]}

GatewayRefLists ==
    {<<>>,
     <<[Name |-> "gw1", Namespace |-> "ns1"]>>,
     <<[Name |-> "gw1", Namespace |-> "ns2"]>>,
     <<[Name |-> "gw2", Namespace |-> "ns1"]>>,
     <<[Name |-> "gw2", Namespace |-> "ns1"], [Name |-> "gw1", Namespace |-> "ns2"]>>,
     <<[Name |-> "gw2", Namespace |-> "ns2"], [Name |-> "gw1", Namespace |-> "ns1"]>>}

\* RouteGateways: the policy, with a reference list where the policy reads one
RouteGatewaysMenu ==
    {[Allow |-> a, GatewayRefs |-> <<>>] :
        a \in {"", GatewayAllowAll, GatewayAllowSameNamespace}}
    \cup {[Allow |-> GatewayAllowFromList, GatewayRefs |-> l] : l \in GatewayRefLists}

MatchConfigs ==
    {[GroupVersionKind |-> [Group |-> DefaultRouteGroup, Kind |-> k],
      Name |-> "route", Namespace |-> n, Labels |-> {"app=a"},
      Spec |-> [Type |-> SpecTypeOf(k), Gateways |-> g]] :
        k \in RouteKinds, n \in NsNames, g \in RouteGatewaysMenu}

MatchSelectors ==
    {[Kind |-> k, Group |-> g, Selector |-> sel, Namespaces |-> nsp] :
        k \in RouteKinds, g \in {"", DefaultRouteGroup, "example.io"},
        sel \in LabelSelectors, nsp \in RouteNamespacesMenu}

InitMatch ==
    /\ cfg \in MatchConfigs
    /\ gateway \in {[Name |-> "gw1", Namespace |-> n] : n \in NsNames}
    /\ routes \in MatchSelectors
    /\ namespaces \in NamespaceIndexes
    /\ matched = FALSE
    /\ mpc = "input"
    /\ fpNoise = [w \in 0..MaxWeight |-> 0]
    /\ IdleWeights
    /\ IdleConv

Match ==
    /\ mpc = "input"
    /\ matched' = isRouteMatch(cfg, gateway, routes, namespaces)
    /\ mpc' = "done"
    /\ UNCHANGED <<cfg, gateway, routes, namespaces, weightVars, convVars>>

NextMatch == Match

SpecMatch == InitMatch /\ [][NextMatch]_vars

-----------------------------------------------------------------------------
(* Claims on the binding resolver, under SpecMatch *)

SelectorFieldsMatch ==
    /\ routes.Kind = cfg.GroupVersionKind.Kind
    /\ selectorGroup(routes) = cfg.GroupVersionKind.Group
    /\ ~routes.Selector.Invalid
    /\ routes.Selector.MatchLabels \subseteq cfg.Labels

\* C5: a route whose gateway-selection policy is unset (empty Allow) is
\* treated as allow-same-namespace: in a namespace other than the gateway's it
\* does not bind, even when the listener selector's kind, group and labels
\* match and its namespace policy is All.
C5_UnsetAllowIsSameNamespace ==
    (/\ mpc = "done"
     /\ cfg.Spec.Gateways.Allow = ""
     /\ cfg.Namespace # gateway.Namespace)
        => ~matched

\* C6: a route in the gateway's namespace matches when the listener selector
\* names the route's kind and leaves group, label selector and namespace
\* policy unset, and the route's gateway-selection policy is the default
\* (unset, or SameNamespace spelled out).
C6_DefaultsMatch ==
    (/\ mpc = "done"
     /\ cfg.Namespace = gateway.Namespace
     /\ routes.Kind = cfg.GroupVersionKind.Kind
     /\ routes.Group = ""
     /\ routes.Selector = [MatchLabels |-> {}, Invalid |-> FALSE]
     /\ routes.Namespaces.From = ""
     /\ cfg.Spec.Gateways.Allow \in {"", GatewayAllowSameNamespace})
        => matched

C6_Witness ==
    /\ mpc = "done"
    /\ matched
    /\ cfg.Namespace = "ns2" /\ gateway.Namespace = "ns2"
    /\ routes = [Kind |-> "HTTPRoute", Group |-> "",
                 Selector |-> [MatchLabels |-> {}, Invalid |-> FALSE],
                 Namespaces |-> [From |-> "",
                                 Selector |-> [MatchLabels |-> {}, Invalid |-> FALSE]]]
    /\ cfg.GroupVersionKind.Kind = "HTTPRoute"
    /\ cfg.Spec.Gateways.Allow = ""

\* C7: a route whose gateway-selection policy is SameNamespace and whose
\* namespace differs from the gateway's never matches, whatever the listener
\* selector and the namespace index are.
C7_SameNamespaceNeverCrosses ==
    (/\ mpc = "done"
     /\ cfg.Spec.Gateways.Allow = GatewayAllowSameNamespace
     /\ cfg.Namespace # gateway.Namespace)
        => ~matched

\* the selector side passes, so only the route's own policy refuses
C7_Witness ==
    /\ mpc = "done"
    /\ ~matched
    /\ cfg.Spec.Gateways.Allow = GatewayAllowSameNamespace
    /\ cfg.Namespace # gateway.Namespace
    /\ SelectorFieldsMatch
    /\ routes.Namespaces.From = RouteSelectAll

\* C25: with the listener namespace policy Selector, isRouteMatch is false
\* when the route's namespace is missing from the namespace index or its labels
\* do not satisfy the selector, whatever the other clauses give; with All the
\* namespace clause always passes (the other clauses alone decide); with Same
\* or unset it passes exactly when route and gateway namespaces are equal.
C25_NamespacePolicy ==
    mpc = "done" =>
        /\ (/\ routes.Namespaces.From = "Selector"
            /\ \/ cfg.Namespace \notin DOMAIN namespaces
               \/ ~(routes.Namespaces.Selector.MatchLabels
                        \subseteq namespaces[cfg.Namespace].Labels))
               => ~matched
        /\ routes.Namespaces.From = "All"
               => (matched <=> (SelectorFieldsMatch /\ gatewayPolicyAllows(cfg, gateway)))
        /\ routes.Namespaces.From \in {"Same", ""}
               => (matched <=> /\ SelectorFieldsMatch
                               /\ gatewayPolicyAllows(cfg, gateway)
                               /\ gateway.Namespace = cfg.Namespace)

\* every other clause passes and the route's namespace is missing from the index
C25_Witness ==
    /\ mpc = "done"
    /\ ~matched
    /\ routes.Namespaces.From = "Selector"
    /\ ~routes.Namespaces.Selector.Invalid
    /\ cfg.Namespace \notin DOMAIN namespaces
    /\ SelectorFieldsMatch
    /\ gatewayPolicyAllows(cfg, gateway)

RefNamesGateway(ref) == ref.Name = gateway.Name /\ ref.Namespace = gateway.Namespace

\* C8: a route whose gateway-selection policy is FromList binds only if its
\* reference list holds an entry whose name and namespace both equal the
\* gateway's; an entry that matches only the name, or only the namespace,
\* does not bind.
C8_FromListNeedsBoth ==
    (/\ mpc = "done"
     /\ cfg.Spec.Gateways.Allow = GatewayAllowFromList
     /\ matched)
        => \E i \in DOMAIN cfg.Spec.Gateways.GatewayRefs :
               RefNamesGateway(cfg.Spec.Gateways.GatewayRefs[i])

\* one entry has the gateway's name, another its namespace, none both; the
\* selector side passes
C8_Witness ==
    /\ mpc = "done"
    /\ ~matched
    /\ cfg.Spec.Gateways.Allow = GatewayAllowFromList
    /\ \E i \in DOMAIN cfg.Spec.Gateways.GatewayRefs :
           /\ cfg.Spec.Gateways.GatewayRefs[i].Name = gateway.Name
           /\ cfg.Spec.Gateways.GatewayRefs[i].Namespace # gateway.Namespace
    /\ \E i \in DOMAIN cfg.Spec.Gateways.GatewayRefs :
           /\ cfg.Spec.Gateways.GatewayRefs[i].Name # gateway.Name
           /\ cfg.Spec.Gateways.GatewayRefs[i].Namespace = gateway.Namespace
    /\ SelectorFieldsMatch
    /\ routes.Namespaces.From = RouteSelectAll

-----------------------------------------------------------------------------
(* Spec: convertResources, pass after pass, on the snapshots drawn below.   *)
(* Between two passes the watch layer may hand over a new snapshot that     *)
(* carries the same resource objects, status included.                      *)

EmptySelector == [MatchLabels |-> {}, Invalid |-> FALSE]

\* a RouteBindingSelector that leaves group and label selector unset
BindingSelector(kind, nsp) ==
    [Kind |-> kind, Group |-> "", Selector |-> EmptySelector, Namespaces |-> nsp]

FromPolicy(from) == [From |-> from, Selector |-> EmptySelector]

ListenerHTTP ==
    [Hostname |-> <<>>, Port |-> 80, Protocol |-> "HTTP", TLS |-> <<>>,
     Routes |-> BindingSelector("HTTPRoute", FromPolicy(""))]

ListenerHTTPAll ==
    [Hostname |-> <<"">>, Port |-> 8080, Protocol |-> "HTTP", TLS |-> <<>>,
     Routes |-> BindingSelector("HTTPRoute", FromPolicy(RouteSelectAll))]

\* Terminate without a certificate: buildTLS voids the TLS settings
ListenerHTTPS ==
    [Hostname |-> <<"a.example.com">>, Port |-> 443, Protocol |-> "HTTPS",
     TLS |-> <<[Mode |-> "Terminate", CertificateRef |-> <<>>]>>,
     Routes |-> BindingSelector("HTTPRoute", FromPolicy(RouteSelectAll))]

ListenerTCP ==
    [Hostname |-> <<>>, Port |-> 9000, Protocol |-> "TCP", TLS |-> <<>>,
     Routes |-> BindingSelector("TCPRoute", FromPolicy(RouteSelectAll))]

ListenerTLS ==
    [Hostname |-> <<"b.example.com">>, Port |-> 8443, Protocol |-> "TLS",
     TLS |-> <<[Mode |-> "Passthrough", CertificateRef |-> <<>>]>>,
     Routes |-> BindingSelector("TLSRoute",
                    [From |-> RouteSelectSelector,
                     Selector |-> [MatchLabels |-> {"env=prod"}, Invalid |-> FALSE]])]

NewGatewayClass(name, controller) ==
    [GroupVersionKind |-> [Group |-> DefaultRouteGroup, Kind |-> "GatewayClass"],
     Name |-> name, Namespace |-> "", Labels |-> {}, Generation |-> 1,
     Spec |-> [Type |-> "GatewayClassSpec", Controller |-> controller],
     Status |-> [Conditions |-> <<>>]]

NewGateway(name, ns, class, listeners) ==
    [GroupVersionKind |-> [Group |-> DefaultRouteGroup, Kind |-> "Gateway"],
     Name |-> name, Namespace |-> ns, Labels |-> {}, Generation |-> 1,
     Spec |-> [Type |-> "GatewaySpec", GatewayClassName |-> class, Listeners |-> listeners],
     Status |-> [Addresses |-> <<>>, Listeners |-> <<>>, Conditions |-> <<>>]]

NewRoute(kind, name, ns, gateways, rules) ==
    [GroupVersionKind |-> [Group |-> DefaultRouteGroup, Kind |-> kind],
     Name |-> name, Namespace |-> ns, Labels |-> {"app=a"}, Generation |-> 1,
     Spec |-> [Type |-> SpecTypeOf(kind), Gateways |-> gateways,
               Hostnames |-> <<"a.example.com">>, Rules |-> rules],
     Status |-> [Gateways |-> <<>>]]

ForwardToService(name, weight) ==
    [ServiceName |-> <<name>>, BackendRef |-> <<>>, Port |-> <<>>, Weight |-> weight,
     Filters |-> <<>>]

ForwardToBackendRef(weight) ==
    [ServiceName |-> <<>>,
     BackendRef |-> <<[Group |-> "example.io", Kind |-> "Bucket", Name |-> "store"]>>,
     Port |-> <<9080>>, Weight |-> weight,
     Filters |-> <<[Type |-> "RequestMirror", RequestHeaderModifier |-> <<>>]>>]

\* one rule, a prefix match, two services weighted 1 and 3
RulesSplit ==
    <<[Matches |-> <<[Path |-> [Type |-> "Prefix", Value |-> "/api/"], Headers |-> <<>>]>>,
       Filters |-> <<>>,
       ForwardTo |-> <<ForwardToService("reviews", 1), ForwardToService("ratings", 3)>>]>>

\* a rule with one destination, supported and unsupported matches and filters;
\* a rule whose targets are a backend reference and two services, all of weight 0
RulesMixed ==
    <<[Matches |-> <<[Path |-> [Type |-> "Exact", Value |-> "/v1.0"],
                      Headers |-> <<[Type |-> "Exact", Values |-> [version |-> "v1"]]>>],
                     [Path |-> [Type |-> "Glob", Value |-> "/*"],
                      Headers |-> <<[Type |-> "RegularExpression",
                                     Values |-> [version |-> "v.*"]]>>]>>,
       Filters |-> <<[Type |-> HTTPRouteFilterRequestHeaderModifier,
                      RequestHeaderModifier |->
                          <<[Add |-> "x-added", Remove |-> "x-removed", Set |-> "x-set"]>>],
                     [Type |-> "RequestMirror", RequestHeaderModifier |-> <<>>]>>,
       ForwardTo |-> <<ForwardToService("reviews", 2)>>],
      [Matches |-> <<>>, Filters |-> <<>>,
       ForwardTo |-> <<ForwardToBackendRef(0), ForwardToService("details", 0),
                       ForwardToService("ratings", 0)>>]>>

GenericForwardTo(name, weight) ==
    [ServiceName |-> <<name>>, BackendRef |-> <<>>, Port |-> <<9000>>, Weight |-> weight]

TCPRules ==
    <<[Matches |-> <<>>,
       ForwardTo |-> <<GenericForwardTo("db", 2), GenericForwardTo("db-replica", 1)>>]>>

TLSRules ==
    <<[Matches |-> <<>>, ForwardTo |-> <<GenericForwardTo("secure", 7)>>],
      [Matches |-> <<[SNIs |-> <<"b.example.com">>]>>, ForwardTo |-> <<>>]>>

NewBackendPolicy(name, ns, refs) ==
    [GroupVersionKind |-> [Group |-> DefaultRouteGroup, Kind |-> "BackendPolicy"],
     Name |-> name, Namespace |-> ns, Labels |-> {}, Generation |-> 1,
     Spec |-> [Type |-> "BackendPolicySpec", BackendRefs |-> refs,
               TLS |-> <<[CertificateAuthorityRef |->
                             <<[Group |-> "", Kind |-> "Secret", Name |-> "ca"]>>]>>],
     Status |-> [Conditions |-> <<>>]]

ClassLists ==
    {<<>>,
     <<NewGatewayClass("istio", ControllerName),
       NewGatewayClass("other", "example.com/gateway-controller")>>}

\* gw1 is in ns1 and gw2 in ns2; class "other" is another controller's, class
\* "missing" is no gateway class of any snapshot
GatewayLists ==
    {<<>>,
     <<NewGateway("gw1", "ns1", "istio", <<ListenerHTTP>>)>>,
     <<NewGateway("gw1", "ns1", "other", <<ListenerHTTPAll>>)>>,
     <<NewGateway("gw1", "ns1", "istio", <<ListenerHTTPAll, ListenerTCP, ListenerHTTPS>>),
       NewGateway("gw2", "ns2", "istio", <<ListenerHTTP, ListenerTLS>>)>>,
     <<NewGateway("gw2", "ns2", "missing", <<ListenerHTTPAll>>),
       NewGateway("gw1", "ns1", "istio", <<ListenerHTTP>>)>>}

\* the gateway-selection policy of the first HTTP route
RoutePolicies ==
    {[Allow |-> "", GatewayRefs |-> <<>>],
     [Allow |-> GatewayAllowAll, GatewayRefs |-> <<>>],
     [Allow |-> GatewayAllowSameNamespace,
      GatewayRefs |-> <<[Name |-> "mesh", Namespace |-> ""]>>],
     [Allow |-> GatewayAllowFromList,
      GatewayRefs |-> <<[Name |-> "gw1", Namespace |-> "ns1"]>>],
     [Allow |-> GatewayAllowFromList,
      GatewayRefs |-> <<[Name |-> "gw2", Namespace |-> "ns2"],
                        [Name |-> "mesh", Namespace |-> "ns1"]>>],
     [Allow |-> GatewayAllowAll,
      GatewayRefs |-> <<[Name |-> "mesh", Namespace |-> "ns1"],
                        [Name |-> "Mesh", Namespace |-> "ns1"]>>]}

AllowAll == [Allow |-> GatewayAllowAll, GatewayRefs |-> <<>>]

\* what the snapshot holds besides gateways and the first HTTP route
Payloads ==
    {[Rules |-> RulesSplit, MoreHTTP |-> <<>>, TCPRoute |-> <<>>, TLSRoute |-> <<>>,
      BackendPolicy |-> <<>>],
     [Rules |-> RulesMixed, MoreHTTP |-> <<>>,
      TCPRoute |-> <<NewRoute("TCPRoute", "db", "ns1", AllowAll, TCPRules)>>,
      TLSRoute |-> <<>>,
      BackendPolicy |->
          <<NewBackendPolicy("trust", "ns1",
                <<[Group |-> "", Kind |-> "", Name |-> "reviews", Port |-> <<9080>>],
                  [Group |-> "example.io", Kind |-> "Bucket", Name |-> "store",
                   Port |-> <<>>],
                  [Group |-> "core", Kind |-> "Service", Name |-> "ratings",
                   Port |-> <<>>]>>)>>],
     [Rules |-> RulesSplit,
      MoreHTTP |-> <<NewRoute("HTTPRoute", "web2", "ns2",
                        [Allow |-> GatewayAllowSameNamespace, GatewayRefs |-> <<>>],
                        RulesSplit)>>,
      TCPRoute |-> <<>>,
      TLSRoute |-> <<NewRoute("TLSRoute", "secure", "ns1", AllowAll, TLSRules),
                     NewRoute("TLSRoute", "secure2", "ns2", AllowAll, TLSRules)>>,
      BackendPolicy |-> <<>>]}

\* ns2 is missing from the namespace index
SnapshotNamespaces == [n \in {"ns1"} |-> [Labels |-> {"env=prod"}]]

MenuSnapshots ==
    {[GatewayClass |-> cl, Gateway |-> gl,
      HTTPRoute |-> <<NewRoute("HTTPRoute", "web", ns, pol, pl.Rules)>> \o pl.MoreHTTP,
      TCPRoute |-> pl.TCPRoute, TLSRoute |-> pl.TLSRoute,
      BackendPolicy |-> pl.BackendPolicy,
      Namespaces |-> SnapshotNamespaces, Domain |-> "cluster.local"] :
        cl \in ClassLists, gl \in GatewayLists, ns \in NsNames, pol \in RoutePolicies,
        pl \in Payloads}

\* one class of ours, one gateway with one listener on port 80 without hostname,
\* one HTTP route of the gateway's namespace that forwards to two services with
\* weights 1 and 3
EndToEndSnapshot ==
    [GatewayClass |-> <<NewGatewayClass("istio", ControllerName)>>,
     Gateway |-> <<NewGateway("gw1", "ns1", "istio", <<ListenerHTTP>>)>>,
     HTTPRoute |-> <<NewRoute("HTTPRoute", "web", "ns1",
                        [Allow |-> GatewayAllowSameNamespace, GatewayRefs |-> <<>>],
                        RulesSplit)>>,
     TCPRoute |-> <<>>, TLSRoute |-> <<>>, BackendPolicy |-> <<>>,
     Namespaces |-> SnapshotNamespaces, Domain |-> "cluster.local"]

\* an HTTP route named db-tcp and a TCP route named db in one namespace, both
\* selected by a gateway; the HTTP route names mesh twice
NameClashSnapshot ==
    [GatewayClass |-> <<NewGatewayClass("istio", ControllerName)>>,
     Gateway |-> <<NewGateway("gw1", "ns1", "istio", <<ListenerHTTPAll, ListenerTCP>>)>>,
     HTTPRoute |-> <<NewRoute("HTTPRoute", "db-tcp", "ns1",
                        [Allow |-> GatewayAllowAll,
                         GatewayRefs |-> <<[Name |-> "mesh", Namespace |-> "ns1"],
                                           [Name |-> "mesh", Namespace |-> "ns2"]>>],
                        RulesSplit)>>,
     TCPRoute |-> <<NewRoute("TCPRoute", "db", "ns1", AllowAll, TCPRules)>>,
     TLSRoute |-> <<>>, BackendPolicy |-> <<>>,
     Namespaces |-> SnapshotNamespaces, Domain |-> "cluster.local"]

Snapshots == MenuSnapshots \cup {EndToEndSnapshot, NameClashSnapshot}

EmptyOutput == [Gateway |-> <<>>, VirtualService |-> <<>>, DestinationRule |-> <<>>]

\* The weights of the snapshots' rules have no two different weights with the
\* same exact remainder, so the rounding noise is never read: it is fixed.
Init ==
    /\ resources \in Snapshots
    /\ out = EmptyOutput
    /\ ownership = <<>>
    /\ now = 0
    /\ edits = 0
    /\ converted = FALSE
    /\ fpNoise = [w \in 0..MaxWeight |-> 0]
    /\ IdleWeights
    /\ IdleMatch

\* one call of convertResources that returns (an index out of range is a panic:
\* no output, no next state); metav1.Now() is later than at any earlier pass
Convert ==
    /\ now < MaxPasses
    /\ convertCompletes(resources)
    /\ LET pass == convertResources(resources, now + 1)
       IN  /\ resources' = pass.r
           /\ out' = pass.out
           /\ ownership' = pass.routeMap
    /\ now' = now + 1
    /\ converted' = TRUE
    /\ UNCHANGED <<edits, weightVars, matchVars>>

\* the watch layer hands over a new snapshot: guard and bookkeeping
Replaced ==
    /\ converted
    /\ now < MaxPasses
    /\ edits < MaxEdits
    /\ edits' = edits + 1
    /\ converted' = FALSE
    /\ UNCHANGED <<out, ownership, now, weightVars, matchVars>>

Touched(objs) == [i \in DOMAIN objs |-> [objs[i] EXCEPT !.Generation = @ + 1]]

\* every resource was updated: a new generation
NewGeneration ==
    /\ Replaced
    /\ resources' = [resources EXCEPT !.GatewayClass = Touched(@), !.Gateway = Touched(@),
                                      !.HTTPRoute = Touched(@), !.TCPRoute = Touched(@),
                                      !.TLSRoute = Touched(@)]

\* a gateway lost its last listener
DropListener ==
    /\ Replaced
    /\ \E i \in DOMAIN resources.Gateway :
           /\ Len(resources.Gateway[i].Spec.Listeners) >= 1
           /\ resources' = [resources EXCEPT !.Gateway[i].Spec.Listeners =
                               SubSeq(@, 1, Len(@) - 1)]

\* a gateway gained a listener, in front of the others
AddListener ==
    /\ Replaced
    /\ \E i \in DOMAIN resources.Gateway :
           /\ Len(resources.Gateway[i].Spec.Listeners) <= 1
           /\ resources' = [resources EXCEPT !.Gateway[i].Spec.Listeners =
                               <<ListenerTCP>> \o @]

\* the first HTTP route now allows no gateway at all
UnbindRoute ==
    /\ Replaced
    /\ resources.HTTPRoute[1].Spec.Gateways # [Allow |-> GatewayAllowFromList,
                                               GatewayRefs |-> <<>>]
    /\ resources' = [resources EXCEPT !.HTTPRoute[1].Spec.Gateways =
                        [Allow |-> GatewayAllowFromList, GatewayRefs |-> <<>>]]

\* our gateway classes were handed to another controller
DisownClass ==
    /\ Replaced
    /\ \E i \in DOMAIN resources.GatewayClass : ownedClass(resources.GatewayClass[i])
    /\ resources' = [resources EXCEPT !.GatewayClass =
                        [i \in DOMAIN @ |->
                            [@[i] EXCEPT !.Spec.Controller = "example.com/gateway-controller"]]]

StaleCondition(type) ==
    [Type |-> type, Status |-> "False", ObservedGeneration |-> 0,
     LastTransitionTime |-> 0, Reason |-> "Pending", Message |-> "Waiting for controller"]

\* another writer set the status of a gateway: not ready, not scheduled, and
\* one listener entry of a listener the gateway does not have; a condition list
\* is a map keyed by type in the API, so no type is in a list twice
ForeignStatus ==
    /\ Replaced
    /\ \E i \in DOMAIN resources.Gateway :
           resources' = [resources EXCEPT !.Gateway[i].Status =
               [Addresses |-> <<"10.0.0.1">>,
                Listeners |-> <<[Port |-> 1, Protocol |-> "UDP", Hostname |-> <<>>,
                                 Conditions |-> <<StaleCondition("Detached"),
                                                  StaleCondition("Ready")>>]>>,
                Conditions |-> <<StaleCondition("Scheduled"), StaleCondition("Ready")>>]]

Next ==
    \/ Convert
    \/ NewGeneration
    \/ DropListener
    \/ AddListener
    \/ UnbindRoute
    \/ DisownClass
    \/ ForeignStatus

Spec == Init /\ [][Next]_vars

-----------------------------------------------------------------------------
(* Claims on convertResources *)

StripConditions(conditions) ==
    [i \in DOMAIN conditions |-> [conditions[i] EXCEPT !.LastTransitionTime = 0]]

StripRoutes(objs) ==
    [i \in DOMAIN objs |->
        [objs[i] EXCEPT !.Status.Gateways =
            [j \in DOMAIN @ |-> [@[j] EXCEPT !.Conditions = StripConditions(@)]]]]

\* the snapshot with every transition timestamp erased
StripTimes(r) ==
    [r EXCEPT !.GatewayClass =
                  [i \in DOMAIN @ |->
                      [@[i] EXCEPT !.Status.Conditions = StripConditions(@)]],
              !.Gateway =
                  [i \in DOMAIN @ |->
                      [@[i] EXCEPT !.Status.Conditions = StripConditions(@),
                                   !.Status.Listeners =
                                       [j \in DOMAIN @ |->
                                           [@[j] EXCEPT !.Conditions = StripConditions(@)]]]],
              !.HTTPRoute = StripRoutes(@),
              !.TCPRoute = StripRoutes(@),
              !.TLSRoute = StripRoutes(@)]

\* C1: a pass of convertResources over the snapshot as the pass before it left
\* it (no edit in between) gives the same output bundle, config for config and
\* in the same order, and leaves every status as it was but for the transition
\* timestamps.
C1_SecondPassIdempotent ==
    [][(converted /\ converted') =>
           /\ out' = out
           /\ StripTimes(resources') = StripTimes(resources)]_vars

\* two passes in a row over a snapshot that yields configs of all three kinds,
\* the second at a later time than the first
C1_Witness ==
    /\ converted
    /\ edits = 0
    /\ now = 2
    /\ out.Gateway # <<>>
    /\ out.VirtualService # <<>>
    /\ out.DestinationRule # <<>>
    /\ \E i \in DOMAIN resources.HTTPRoute : resources.HTTPRoute[i].Status.Gateways # <<>>

HasMeshRef(obj) ==
    \E j \in DOMAIN obj.Spec.Gateways.GatewayRefs :
        obj.Spec.Gateways.GatewayRefs[j].Name = "mesh"

VirtualServiceOf(obj, gateways) ==
    \E i \in DOMAIN out.VirtualService :
        /\ out.VirtualService[i].Name = obj.Name \o "-istio-autogenerated-k8s-gateway"
        /\ out.VirtualService[i].Namespace = obj.Namespace
        /\ out.VirtualService[i].Spec.Gateways = gateways

\* C9: after a pass, every HTTP route with a gateway reference named "mesh" is a
\* key of the ownership map with "mesh" in its list and has a virtual service in
\* the output, whatever gateways and gateway classes the snapshot holds and
\* whatever the route's Allow policy.
C9_MeshRouteOwned ==
    converted =>
        \A i \in DOMAIN resources.HTTPRoute :
            LET obj == resources.HTTPRoute[i]
                k == [Gvk |-> obj.GroupVersionKind, Name |-> obj.Name,
                      Namespace |-> obj.Namespace]
            IN  HasMeshRef(obj) =>
                    /\ k \in DOMAIN ownership
                    /\ "mesh" \in Range(ownership[k])
                    /\ VirtualServiceOf(obj, ownership[k])

\* a pass over a snapshot without gateway and gateway class, whose HTTP route
\* names mesh under the SameNamespace policy
C9_Witness ==
    /\ converted
    /\ resources.Gateway = <<>>
    /\ resources.GatewayClass = <<>>
    /\ HasMeshRef(resources.HTTPRoute[1])
    /\ resources.HTTPRoute[1].Spec.Gateways.Allow = GatewayAllowSameNamespace
    /\ ownership # <<>>

\* the admission gate, as the claim words it
ClassGate(r, obj) ==
    \E i \in DOMAIN r.GatewayClass :
        /\ r.GatewayClass[i].Name = obj.Spec.GatewayClassName
        /\ r.GatewayClass[i].Spec.Controller = "istio.io/gateway-controller"

GatewayConfigOf(bundle, obj) ==
    \E i \in DOMAIN bundle.Gateway :
        /\ bundle.Gateway[i].Name = obj.Name \o "-istio-autogenerated-k8s-gateway"
        /\ bundle.Gateway[i].Namespace = obj.Namespace

OwnsSomeRoute(routeMap, obj) ==
    \E k \in DOMAIN routeMap :
        obj.Namespace \o "/" \o obj.Name \o "-istio-autogenerated-k8s-gateway"
            \in Range(routeMap[k])

\* C10: a pass puts a gateway config in the output for a gateway exactly when
\* the gateway's class name is the name of a gateway class of the snapshot whose
\* controller is ControllerName; a gateway that fails this has no config, is in
\* no route's ownership list, and keeps the status it had before the pass.
C10_AdmissionGate ==
    [][(now' = now + 1) =>
           \A i \in DOMAIN resources.Gateway :
               LET obj == resources.Gateway[i]
               IN  /\ GatewayConfigOf(out', obj) <=> ClassGate(resources, obj)
                   /\ ~ClassGate(resources, obj) =>
                          /\ ~OwnsSomeRoute(ownership', obj)
                          /\ resources'.Gateway[i] = obj]_vars

\* a pass over a snapshot with one gateway that fails the gate, and has a status
\* to lose, next to one that passes it
C10_Witness ==
    /\ converted
    /\ \E i \in DOMAIN resources.Gateway :
           /\ ~ClassGate(resources, resources.Gateway[i])
           /\ resources.Gateway[i].Status.Conditions # <<>>
           /\ ~GatewayConfigOf(out, resources.Gateway[i])
    /\ \E i \in DOMAIN resources.Gateway :
           /\ ClassGate(resources, resources.Gateway[i])
           /\ GatewayConfigOf(out, resources.Gateway[i])
    /\ ownership # <<>>

RouteKeyOf(obj) ==
    [Gvk |-> obj.GroupVersionKind, Name |-> obj.Name, Namespace |-> obj.Namespace]

\* the route is selected by a listener of a gateway that passes the class gate
SelectedByListener(r, obj) ==
    \E i \in DOMAIN r.Gateway :
        /\ ClassGate(r, r.Gateway[i])
        /\ \E j \in DOMAIN r.Gateway[i].Spec.Listeners :
               isRouteMatch(obj, r.Gateway[i], r.Gateway[i].Spec.Listeners[j].Routes,
                            r.Namespaces)

\* the bundle has a virtual service of the route: its name, its namespace, and
\* the field of its kind ("Http", "Tcp" or "Tls")
HasVirtualService(bundle, name, ns, field) ==
    \E i \in DOMAIN bundle.VirtualService :
        /\ bundle.VirtualService[i].Name = name
        /\ bundle.VirtualService[i].Namespace = ns
        /\ field \in DOMAIN bundle.VirtualService[i].Spec

RouteFrame(objs, objsAfter, routeMap, bundle, infix, field, mesh) ==
    \A i \in DOMAIN objs :
        /\ RouteKeyOf(objs[i]) \in DOMAIN routeMap
               <=> (SelectedByListener(resources, objs[i]) \/ (mesh /\ HasMeshRef(objs[i])))
        /\ HasVirtualService(bundle,
               objs[i].Name \o infix \o "istio-autogenerated-k8s-gateway",
               objs[i].Namespace, field)
               <=> RouteKeyOf(objs[i]) \in DOMAIN routeMap
        /\ RouteKeyOf(objs[i]) \notin DOMAIN routeMap => objsAfter[i] = objs[i]

\* C11: a pass puts a virtual service of a route in the output exactly when the
\* route is a key of the ownership map, and a route is a key exactly when a
\* listener of an admitted gateway selects it or it is an HTTP route naming
\* mesh; a route that is no key is left as it was, status included.
C11_OnlyOwnedRoutesConverted ==
    [][(now' = now + 1) =>
           /\ RouteFrame(resources.HTTPRoute, resources'.HTTPRoute, ownership', out',
                         "-", "Http", TRUE)
           /\ RouteFrame(resources.TCPRoute, resources'.TCPRoute, ownership', out',
                         "-tcp-", "Tcp", FALSE)
           /\ RouteFrame(resources.TLSRoute, resources'.TLSRoute, ownership', out',
                         "-tls-", "Tls", FALSE)]_vars

\* a pass that converted one route and skipped another, the skipped one with a
\* status an earlier pass wrote
C11_Witness ==
    /\ converted
    /\ edits = 1
    /\ RouteKeyOf(resources.HTTPRoute[1]) \notin DOMAIN ownership
    /\ resources.HTTPRoute[1].Status.Gateways # <<>>
    /\ ~HasVirtualService(out, "web-istio-autogenerated-k8s-gateway",
                          resources.HTTPRoute[1].Namespace, "Http")
    /\ out.VirtualService # <<>>

\* C12: after a pass, the listener status of every admitted gateway has one
\* entry per listener, and entry i has the port, protocol and hostname of
\* listener i, whatever the status held before the pass.
C12_ListenerStatusAligned ==
    converted =>
        \A i \in DOMAIN resources.Gateway :
            LET obj == resources.Gateway[i]
            IN  ClassGate(resources, obj) =>
                    /\ Len(obj.Status.Listeners) = Len(obj.Spec.Listeners)
                    /\ \A j \in DOMAIN obj.Spec.Listeners :
                           /\ obj.Status.Listeners[j].Port = obj.Spec.Listeners[j].Port
                           /\ obj.Status.Listeners[j].Protocol = obj.Spec.Listeners[j].Protocol
                           /\ obj.Status.Listeners[j].Hostname = obj.Spec.Listeners[j].Hostname

\* a pass over an admitted gateway whose status held one entry of a listener it
\* does not have (the entry's foreign condition is still there)
C12_Witness ==
    /\ converted
    /\ \E i \in DOMAIN resources.Gateway :
           /\ ClassGate(resources, resources.Gateway[i])
           /\ Len(resources.Gateway[i].Spec.Listeners) = 1
           /\ \E c \in Range(resources.Gateway[i].Status.Listeners[1].Conditions) :
                  c.Type = "Detached"

\* a pass over an admitted gateway whose listener status had another length than
\* its listener list: the entries were rebuilt at this pass, later than the
\* gateway's own conditions
C12_WitnessReset ==
    /\ converted
    /\ now = 2
    /\ \E i \in DOMAIN resources.Gateway :
           /\ ClassGate(resources, resources.Gateway[i])
           /\ Len(resources.Gateway[i].Spec.Listeners) >= 2
           /\ resources.Gateway[i].Status.Conditions[1].LastTransitionTime = 1
           /\ \A j \in DOMAIN resources.Gateway[i].Status.Listeners :
                  resources.Gateway[i].Status.Listeners[j].Conditions[1].LastTransitionTime = 2

OneConditionPerType(conditions) ==
    \A a, b \in DOMAIN conditions : conditions[a].Type = conditions[b].Type => a = b

ConditionListsKeyed(r) ==
    /\ \A i \in DOMAIN r.GatewayClass : OneConditionPerType(r.GatewayClass[i].Status.Conditions)
    /\ \A i \in DOMAIN r.Gateway :
           /\ OneConditionPerType(r.Gateway[i].Status.Conditions)
           /\ \A j \in DOMAIN r.Gateway[i].Status.Listeners :
                  OneConditionPerType(r.Gateway[i].Status.Listeners[j].Conditions)

\* C13: a pass over the snapshot as the pass before it left it changes no
\* condition list of a gateway class, a gateway or a listener: no condition is
\* added, moved or rewritten, its transition timestamp included, and no list
\* holds two conditions of one type.
C13_IdenticalConditionKept ==
    [][(converted /\ converted') =>
           /\ resources'.GatewayClass = resources.GatewayClass
           /\ resources'.Gateway = resources.Gateway
           /\ ConditionListsKeyed(resources')]_vars

\* three passes, the last two over the same snapshot: the conditions of an
\* admitted gateway still carry the time of the second pass, in the places
\* another writer had given them
C13_Witness ==
    /\ converted
    /\ now = 3
    /\ edits = 1
    /\ \E i \in DOMAIN resources.Gateway :
           LET st == resources.Gateway[i].Status
           IN  /\ ClassGate(resources, resources.Gateway[i])
               /\ Len(st.Conditions) = 2
               /\ st.Conditions[1].Type = "Scheduled"
               /\ st.Conditions[1].LastTransitionTime = 2
               /\ st.Conditions[2].LastTransitionTime = 2
               /\ Len(st.Listeners) = 1
               /\ Len(st.Listeners[1].Conditions) = 2
               /\ st.Listeners[1].Conditions[2].LastTransitionTime = 2
    /\ \E i \in DOMAIN resources.GatewayClass :
           /\ resources.GatewayClass[i].Status.Conditions # <<>>
           /\ resources.GatewayClass[i].Status.Conditions[1].LastTransitionTime = 1

TrueAt(conditions, type, generation) ==
    /\ \E i \in DOMAIN conditions : conditions[i].Type = type
    /\ \A i \in DOMAIN conditions :
           conditions[i].Type = type =>
               /\ conditions[i].Status = "True"
               /\ conditions[i].ObservedGeneration = generation

\* C14: after a pass, the status of every admitted gateway has a Ready and a
\* Scheduled condition, true and of the gateway's generation, whatever its
\* listeners and routes and whatever conditions it held before the pass.
C14_ReadyAndScheduled ==
    converted =>
        \A i \in DOMAIN resources.Gateway :
            ClassGate(resources, resources.Gateway[i]) =>
                /\ TrueAt(resources.Gateway[i].Status.Conditions, "Ready",
                          resources.Gateway[i].Generation)
                /\ TrueAt(resources.Gateway[i].Status.Conditions, "Scheduled",
                          resources.Gateway[i].Generation)

\* a pass over an admitted gateway whose status said not scheduled and not ready
\* at generation 0 (the order of that status is still there)
C14_Witness ==
    /\ converted
    /\ \E i \in DOMAIN resources.Gateway :
           /\ ClassGate(resources, resources.Gateway[i])
           /\ Len(resources.Gateway[i].Status.Conditions) = 2
           /\ resources.Gateway[i].Status.Conditions[1].Type = "Scheduled"
           /\ resources.Gateway[i].Status.Conditions[2].Type = "Ready"
           /\ resources.Gateway[i].Generation = 1

\* a pass over an admitted gateway of a new generation, with a listener whose
\* TLS settings give no server TLS
C14_WitnessGeneration ==
    /\ converted
    /\ \E i \in DOMAIN resources.Gateway :
           /\ ClassGate(resources, resources.Gateway[i])
           /\ resources.Gateway[i].Generation = 2
           /\ \E j \in DOMAIN resources.Gateway[i].Spec.Listeners :
                  resources.Gateway[i].Spec.Listeners[j].TLS # <<>>

RouteStatusListsOwners(obj) ==
    LET owners == ownership[RouteKeyOf(obj)]
        entries == obj.Status.Gateways
    IN  /\ Len(entries) = Len(owners)
        /\ \A i \in DOMAIN owners :
               /\ Len(entries[i].Conditions) = 1
               /\ entries[i].Conditions[1].Type = "Admitted"
               /\ entries[i].Conditions[1].Status = "True"
               /\ entries[i].Conditions[1].ObservedGeneration = obj.Generation
               /\ IF owners[i] = "mesh"
                  THEN entries[i].GatewayRef = [Name |-> "mesh", Namespace |-> "default"]
                  ELSE /\ entries[i].GatewayRef.Namespace \in NsNames
                       /\ entries[i].GatewayRef.Namespace \o "/" \o entries[i].GatewayRef.Name
                              = owners[i]

\* C15: after a pass, the status of every route that is a key of the ownership
\* map has one gateway entry per owner, in the order of the ownership list, each
\* with the single condition Admitted, true, at the route's generation; the
\* entry of "mesh" is mesh in namespace "default", any other entry has the
\* namespace before the "/" of the identifier and the name after it.
C15_RouteStatusPerOwner ==
    converted =>
        \A objs \in {resources.HTTPRoute, resources.TCPRoute, resources.TLSRoute} :
            \A i \in DOMAIN objs :
                RouteKeyOf(objs[i]) \in DOMAIN ownership => RouteStatusListsOwners(objs[i])

\* a pass over an HTTP route owned by a gateway and by mesh, in this order
C15_Witness ==
    /\ converted
    /\ RouteKeyOf(resources.HTTPRoute[1]) \in DOMAIN ownership
    /\ Len(ownership[RouteKeyOf(resources.HTTPRoute[1])]) = 2
    /\ ownership[RouteKeyOf(resources.HTTPRoute[1])][1] # "mesh"
    /\ ownership[RouteKeyOf(resources.HTTPRoute[1])][2] = "mesh"
    /\ Len(resources.HTTPRoute[1].Status.Gateways) = 2

\* the targets of a forwarding list that name a service
ServiceTargets(forwardTo) == SelectSeq(forwardTo, LAMBDA to : to.ServiceName # <<>>)

\* the emitted destinations are those of the service targets, one each, in order
OnlyServiceDestinations(forwardTo, destinations, ns) ==
    /\ Len(destinations) = Len(ServiceTargets(forwardTo))
    /\ \A i \in DOMAIN destinations :
           i \in DOMAIN ServiceTargets(forwardTo) =>
               destinations[i].Destination.Host =
                   ServiceTargets(forwardTo)[i].ServiceName[1] \o "." \o ns \o ".svc.cluster.local"
    /\ \A i \in DOMAIN destinations : destinations[i].Destination.Host # ""

RulesOnlyServiceDestinations(objs, infix, field) ==
    \A i \in DOMAIN objs : \A v \in DOMAIN out.VirtualService :
        LET vs == out.VirtualService[v]
        IN  (/\ vs.Name = objs[i].Name \o infix \o "istio-autogenerated-k8s-gateway"
             /\ vs.Namespace = objs[i].Namespace
             /\ field \in DOMAIN vs.Spec) =>
                \A j \in DOMAIN objs[i].Spec.Rules :
                    OnlyServiceDestinations(objs[i].Spec.Rules[j].ForwardTo,
                                            vs.Spec[field][j].Route, objs[i].Namespace)

\* C16: in every emitted rule of an HTTP, TCP or TLS route, the destination list
\* has entries only for the forwarding targets that name a service; a target
\* that names a backend reference has no destination.
C16_BackendRefContributesNothing ==
    converted =>
        /\ RulesOnlyServiceDestinations(resources.HTTPRoute, "-", "Http")
        /\ RulesOnlyServiceDestinations(resources.TCPRoute, "-tcp-", "Tcp")
        /\ RulesOnlyServiceDestinations(resources.TLSRoute, "-tls-", "Tls")

\* the bundle has what the snapshot's well-formed parts give: a gateway config
\* per admitted gateway with a server per listener, a virtual service per owned
\* route, with a rule per rule, a match per match and a destination per target
RestConverted ==
    /\ Len(out.Gateway) = Cardinality({i \in DOMAIN resources.Gateway :
                                          ClassGate(resources, resources.Gateway[i])})
    /\ \A i \in DOMAIN resources.Gateway :
           ClassGate(resources, resources.Gateway[i]) =>
               \E g \in DOMAIN out.Gateway :
                   /\ out.Gateway[g].Name = resources.Gateway[i].Name
                                                \o "-istio-autogenerated-k8s-gateway"
                   /\ Len(out.Gateway[g].Spec.Servers) = Len(resources.Gateway[i].Spec.Listeners)
    /\ Len(out.VirtualService) = Cardinality(DOMAIN ownership)
    /\ \A i \in DOMAIN resources.HTTPRoute :
           RouteKeyOf(resources.HTTPRoute[i]) \in DOMAIN ownership =>
               \E v \in DOMAIN out.VirtualService :
                   LET vs == out.VirtualService[v]
                       rules == resources.HTTPRoute[i].Spec.Rules
                   IN  /\ vs.Name = resources.HTTPRoute[i].Name
                                        \o "-istio-autogenerated-k8s-gateway"
                       /\ vs.Namespace = resources.HTTPRoute[i].Namespace
                       /\ "Http" \in DOMAIN vs.Spec
                       /\ Len(vs.Spec.Http) = Len(rules)
                       /\ \A j \in DOMAIN rules :
                              /\ Len(vs.Spec.Http[j].Match) = Len(rules[j].Matches)
                              /\ Len(vs.Spec.Http[j].Route) = Len(rules[j].ForwardTo)

\* C17: from every snapshot, whatever unsupported or malformed units it holds
\* and whatever the statuses are, a pass indexes no sequence out of range and
\* returns; the bundle it returns has the configs of the rest of the snapshot.
C17_AlwaysReturns ==
    /\ convertCompletes(resources)
    /\ converted => RestConverted

\* a pass that returned over a snapshot with an unsupported filter, header
\* match, path match and backend reference, a TLS listener without certificate,
\* a route with two owners, and, before the pass, a gateway whose listener
\* status was longer than its listener list
C17_Witness ==
    /\ converted
    /\ now = 2
    /\ edits = 1
    /\ Len(resources.HTTPRoute[1].Spec.Rules) = 2
    /\ RouteKeyOf(resources.HTTPRoute[1]) \in DOMAIN ownership
    /\ Len(ownership[RouteKeyOf(resources.HTTPRoute[1])]) >= 2
    /\ \E i \in DOMAIN resources.Gateway :
           /\ ClassGate(resources, resources.Gateway[i])
           /\ resources.Gateway[i].Name = "gw2"
           /\ Len(resources.Gateway[i].Spec.Listeners) = 1
    /\ \E i \in DOMAIN resources.Gateway :
           /\ ClassGate(resources, resources.Gateway[i])
           /\ \E j \in DOMAIN resources.Gateway[i].Spec.Listeners :
                  /\ resources.Gateway[i].Spec.Listeners[j].TLS # <<>>
                  /\ out.Gateway[i].Spec.Servers[j].Tls = <<>>

WithoutStatus(objs) == [i \in DOMAIN objs |-> [objs[i] EXCEPT !.Status = <<>>]]

\* the snapshot with every status erased
StripStatus(r) ==
    [r EXCEPT !.GatewayClass = WithoutStatus(@), !.Gateway = WithoutStatus(@),
              !.HTTPRoute = WithoutStatus(@), !.TCPRoute = WithoutStatus(@),
              !.TLSRoute = WithoutStatus(@), !.BackendPolicy = WithoutStatus(@)]

UnownedRoutesKept(objs, objsAfter, routeMap) ==
    \A i \in DOMAIN objs :
        RouteKeyOf(objs[i]) \notin DOMAIN routeMap => objsAfter[i].Status = objs[i].Status

\* C18: a pass changes nothing of the snapshot but status fields: sequences,
\* metadata, specs (forwarding weights included), namespace index and domain
\* are as before; and the status of a gateway class that is not ours, of a
\* gateway that is not admitted, of a route that is no key of the ownership map
\* and of a backend policy is as before too.
C18_OnlyStatusChanges ==
    [][(now' = now + 1) =>
           /\ StripStatus(resources') = StripStatus(resources)
           /\ \A i \in DOMAIN resources.GatewayClass :
                  resources.GatewayClass[i].Spec.Controller # "istio.io/gateway-controller"
                      => resources'.GatewayClass[i].Status = resources.GatewayClass[i].Status
           /\ \A i \in DOMAIN resources.Gateway :
                  ~ClassGate(resources, resources.Gateway[i])
                      => resources'.Gateway[i].Status = resources.Gateway[i].Status
           /\ UnownedRoutesKept(resources.HTTPRoute, resources'.HTTPRoute, ownership')
           /\ UnownedRoutesKept(resources.TCPRoute, resources'.TCPRoute, ownership')
           /\ UnownedRoutesKept(resources.TLSRoute, resources'.TLSRoute, ownership')
           /\ resources'.BackendPolicy = resources.BackendPolicy]_vars

\* a pass that wrote the status of a gateway class, a gateway and a route, over
\* a route with a rule whose forwarding weights are all zero
C18_Witness ==
    /\ converted
    /\ \E i \in DOMAIN resources.GatewayClass : resources.GatewayClass[i].Status.Conditions # <<>>
    /\ \E i \in DOMAIN resources.Gateway : resources.Gateway[i].Status.Conditions # <<>>
    /\ resources.HTTPRoute[1].Status.Gateways # <<>>
    /\ \E j \in DOMAIN resources.HTTPRoute[1].Spec.Rules :
           /\ Len(resources.HTTPRoute[1].Spec.Rules[j].ForwardTo) = 3
           /\ \A k \in DOMAIN resources.HTTPRoute[1].Spec.Rules[j].ForwardTo :
                  resources.HTTPRoute[1].Spec.Rules[j].ForwardTo[k].Weight = 0
    /\ resources.BackendPolicy # <<>>

RECURSIVE SumOfRefs(_)
SumOfRefs(policies) ==
    IF policies = <<>> THEN 0
    ELSE Len(Head(policies).Spec.BackendRefs) + SumOfRefs(Tail(policies))

\* C19: after a pass, the output holds one destination rule per backend
\* reference of every backend policy, whatever the group and kind of the
\* reference: N references give N destination rules.
C19_OneRulePerBackendRef ==
    converted =>
        /\ Len(out.DestinationRule) = SumOfRefs(resources.BackendPolicy)
        /\ \A p \in DOMAIN resources.BackendPolicy :
               \A i \in DOMAIN resources.BackendPolicy[p].Spec.BackendRefs :
                   \E d \in DOMAIN out.DestinationRule :
                       /\ out.DestinationRule[d].Name =
                              resources.BackendPolicy[p].Name \o "-" \o ToString(i - 1)
                                  \o "-istio-autogenerated-k8s-gateway"
                       /\ out.DestinationRule[d].Namespace = resources.BackendPolicy[p].Namespace

AdmittedGateways == SelectSeq(resources.Gateway, LAMBDA obj : ClassGate(resources, obj))

OwnedRoutes(objs) == SelectSeq(objs, LAMBDA obj : RouteKeyOf(obj) \in DOMAIN ownership)

VirtualServicesOfKind(field) ==
    SelectSeq(out.VirtualService, LAMBDA vs : field \in DOMAIN vs.Spec)

InRouteOrder(objs, infix, field) ==
    /\ Len(VirtualServicesOfKind(field)) = Len(OwnedRoutes(objs))
    /\ \A i \in DOMAIN OwnedRoutes(objs) :
           /\ VirtualServicesOfKind(field)[i].Name =
                  OwnedRoutes(objs)[i].Name \o infix \o "istio-autogenerated-k8s-gateway"
           /\ VirtualServicesOfKind(field)[i].Namespace = OwnedRoutes(objs)[i].Namespace

\* C20: after a pass, the gateway configs are those of the admitted gateways in
\* the order of the snapshot, the servers of each are those of its listeners in
\* the order they are declared, and the virtual services of the routes of a
\* kind are in the order of those routes in the snapshot.
C20_OutputInSnapshotOrder ==
    converted =>
        /\ Len(out.Gateway) = Len(AdmittedGateways)
        /\ \A i \in DOMAIN AdmittedGateways :
               /\ out.Gateway[i].Name = AdmittedGateways[i].Name
                                            \o "-istio-autogenerated-k8s-gateway"
               /\ out.Gateway[i].Namespace = AdmittedGateways[i].Namespace
               /\ Len(out.Gateway[i].Spec.Servers) = Len(AdmittedGateways[i].Spec.Listeners)
               /\ \A j \in DOMAIN AdmittedGateways[i].Spec.Listeners :
                      /\ out.Gateway[i].Spec.Servers[j].Port.Number =
                             AdmittedGateways[i].Spec.Listeners[j].Port
                      /\ out.Gateway[i].Spec.Servers[j].Port.Protocol =
                             AdmittedGateways[i].Spec.Listeners[j].Protocol
        /\ InRouteOrder(resources.HTTPRoute, "-", "Http")
        /\ InRouteOrder(resources.TCPRoute, "-tcp-", "Tcp")
        /\ InRouteOrder(resources.TLSRoute, "-tls-", "Tls")

\* a pass over two admitted gateways, one of them with three listeners, and two
\* owned HTTP routes
C20_Witness ==
    /\ converted
    /\ Len(out.Gateway) = 2
    /\ Len(out.Gateway[1].Spec.Servers) = 3
    /\ Len(VirtualServicesOfKind("Http")) = 2
    /\ Len(VirtualServicesOfKind("Tls")) >= 1

ServiceHostsOfRoute(objs, infix, field) ==
    \A i \in DOMAIN objs : \A v \in DOMAIN out.VirtualService :
        LET vs == out.VirtualService[v]
        IN  (/\ vs.Name = objs[i].Name \o infix \o "istio-autogenerated-k8s-gateway"
             /\ vs.Namespace = objs[i].Namespace
             /\ field \in DOMAIN vs.Spec) =>
                \A j \in DOMAIN objs[i].Spec.Rules :
                    \A k \in DOMAIN objs[i].Spec.Rules[j].ForwardTo :
                        LET to == objs[i].Spec.Rules[j].ForwardTo[k]
                        IN  to.ServiceName # <<>> =>
                                vs.Spec[field][j].Route[k].Destination.Host =
                                    to.ServiceName[1] \o "." \o objs[i].Namespace \o ".svc."
                                        \o resources.Domain

\* C21: after a pass, every destination built from a forwarding target that
\* names a service has the host <service>.<namespace of the route>.svc.<domain>,
\* whatever the namespaces of the owning gateways; service reviews in namespace
\* bookinfo with domain cluster.local gives reviews.bookinfo.svc.cluster.local.
C21_HostInRouteNamespace ==
    /\ buildDestination(ForwardToService("reviews", 1), "bookinfo", "cluster.local").Host
           = "reviews.bookinfo.svc.cluster.local"
    /\ buildGenericDestination(GenericForwardTo("reviews", 1), "bookinfo", "cluster.local").Host
           = "reviews.bookinfo.svc.cluster.local"
    /\ converted =>
           /\ ServiceHostsOfRoute(resources.HTTPRoute, "-", "Http")
           /\ ServiceHostsOfRoute(resources.TCPRoute, "-tcp-", "Tcp")
           /\ ServiceHostsOfRoute(resources.TLSRoute, "-tls-", "Tls")

\* a pass over an HTTP route of ns2 whose only owner is a gateway of ns1
C21_Witness ==
    /\ converted
    /\ resources.HTTPRoute[1].Namespace = "ns2"
    /\ RouteKeyOf(resources.HTTPRoute[1]) \in DOMAIN ownership
    /\ ownership[RouteKeyOf(resources.HTTPRoute[1])]
           = <<"ns1/gw1-istio-autogenerated-k8s-gateway">>
    /\ \E v \in DOMAIN out.VirtualService :
           /\ "Http" \in DOMAIN out.VirtualService[v].Spec
           /\ out.VirtualService[v].Spec.Http[1].Route[1].Destination.Host
                  = "reviews.ns2.svc.cluster.local"

\* C22: the snapshot with one gateway class of ours, one gateway of the class
\* with one listener on port 80 and no hostname, and one HTTP route of the same
\* namespace with one rule to two services weighted 1 and 3 converts to one
\* gateway config with one server (hosts "*", port 80), one virtual service
\* whose rule has two destinations weighted 25 and 75 in this order, and a route
\* status with one gateway entry whose Admitted condition is true.
C22_EndToEnd ==
    (converted /\ StripStatus(resources) = StripStatus(EndToEndSnapshot)) =>
        /\ Len(out.Gateway) = 1
        /\ Len(out.Gateway[1].Spec.Servers) = 1
        /\ out.Gateway[1].Spec.Servers[1].Hosts = <<"*">>
        /\ out.Gateway[1].Spec.Servers[1].Port.Number = 80
        /\ Len(out.VirtualService) = 1
        /\ Len(out.VirtualService[1].Spec.Http) = 1
        /\ Len(out.VirtualService[1].Spec.Http[1].Route) = 2
        /\ out.VirtualService[1].Spec.Http[1].Route[1].Weight = 25
        /\ out.VirtualService[1].Spec.Http[1].Route[2].Weight = 75
        /\ out.VirtualService[1].Spec.Http[1].Route[1].Destination.Host
               = "reviews.ns1.svc.cluster.local"
        /\ out.VirtualService[1].Spec.Http[1].Route[2].Destination.Host
               = "ratings.ns1.svc.cluster.local"
        /\ Len(resources.HTTPRoute[1].Status.Gateways) = 1
        /\ Len(resources.HTTPRoute[1].Status.Gateways[1].Conditions) = 1
        /\ resources.HTTPRoute[1].Status.Gateways[1].Conditions[1].Type = "Admitted"
        /\ resources.HTTPRoute[1].Status.Gateways[1].Conditions[1].Status = "True"

\* a pass over that snapshot
C22_Witness ==
    /\ converted
    /\ now = 1
    /\ StripStatus(resources) = StripStatus(EndToEndSnapshot)
    /\ out.Gateway # <<>>
    /\ out.VirtualService # <<>>


\* the identifier a gateway is listed under
OwnerIdOf(obj) == obj.Namespace \o "/" \o obj.Name \o "-istio-autogenerated-k8s-gateway"

\* the gateway passes the class gate and one of its listeners selects the route
GatewaySelects(r, gw, obj) ==
    /\ ClassGate(r, gw)
    /\ \E j \in DOMAIN gw.Spec.Listeners :
           isRouteMatch(obj, gw, gw.Spec.Listeners[j].Routes, r.Namespaces)

\* a list with every run of one repeated element reduced to a single element
RECURSIVE Squeeze(_)
Squeeze(s) ==
    IF Len(s) < 2 THEN s
    ELSE IF s[1] = s[2] THEN Squeeze(Tail(s))
    ELSE <<s[1]>> \o Squeeze(Tail(s))

\* the identifiers of the gateways that select the route, in snapshot order,
\* then the mesh token for an HTTP route with a reference named mesh
SelectingOwners(obj, isHTTP) ==
    LET sel == SelectSeq(resources.Gateway, LAMBDA gw : GatewaySelects(resources, gw, obj))
    IN  [i \in DOMAIN sel |-> OwnerIdOf(sel[i])]
            \o (IF isHTTP /\ HasMeshRef(obj) THEN <<"mesh">> ELSE <<>>)

OwnersAsSelected(objs, isHTTP, infix, field) ==
    \A i \in DOMAIN objs :
        LET key == RouteKeyOf(objs[i])
            want == SelectingOwners(objs[i], isHTTP)
        IN  /\ key \in DOMAIN ownership <=> want # <<>>
            /\ key \in DOMAIN ownership =>
                   /\ Squeeze(ownership[key]) = want
                   /\ \A v \in DOMAIN out.VirtualService :
                          (/\ out.VirtualService[v].Name =
                                  objs[i].Name \o infix \o "istio-autogenerated-k8s-gateway"
                           /\ out.VirtualService[v].Namespace = objs[i].Namespace
                           /\ field \in DOMAIN out.VirtualService[v].Spec) =>
                              out.VirtualService[v].Spec.Gateways = ownership[key]

\* C24: after a pass, the ownership list of a route names the admitted gateways
\* with a listener that selects the route, each under namespace + "/" + derived
\* name, in the order the gateways have in the snapshot, and the mesh token, if
\* the route has it, comes last; the gateways field of the route's virtual
\* service is that list.
C24_OwnersInGatewayOrder ==
    converted =>
        /\ OwnersAsSelected(resources.HTTPRoute, TRUE, "-", "Http")
        /\ OwnersAsSelected(resources.TCPRoute, FALSE, "-tcp-", "Tcp")
        /\ OwnersAsSelected(resources.TLSRoute, FALSE, "-tls-", "Tls")

\* a pass over an HTTP route selected by two gateways and listing mesh
C24_Witness ==
    /\ converted
    /\ Len(resources.Gateway) >= 2
    /\ \E i \in DOMAIN resources.HTTPRoute :
           LET key == RouteKeyOf(resources.HTTPRoute[i])
           IN  /\ key \in DOMAIN ownership
               /\ ownership[key] = <<OwnerIdOf(resources.Gateway[1]),
                                     OwnerIdOf(resources.Gateway[2]), "mesh">>
               /\ \E v \in DOMAIN out.VirtualService :
                      out.VirtualService[v].Spec.Gateways = ownership[key]

NoRepeat(s) == \A i, j \in DOMAIN s : i # j => s[i] # s[j]

\* C26: in the bundle of a pass no two virtual services have the same name and
\* the same namespace, whatever the kinds and names of their routes.
C26_DistinctVirtualServiceNames ==
    converted =>
        \A i, j \in DOMAIN out.VirtualService :
            i # j => \/ out.VirtualService[i].Name # out.VirtualService[j].Name
                     \/ out.VirtualService[i].Namespace # out.VirtualService[j].Namespace

\* C27: after a pass no identifier is twice in an ownership list, in the
\* gateways field of a virtual service, or among the gateway references of a
\* route's status, also when several listeners of one gateway select the route
\* or the route has several references named mesh.
C27_OwnerListedOnce ==
    converted =>
        /\ \A key \in DOMAIN ownership : NoRepeat(ownership[key])
        /\ \A v \in DOMAIN out.VirtualService : NoRepeat(out.VirtualService[v].Spec.Gateways)
        /\ \A objs \in {resources.HTTPRoute, resources.TCPRoute, resources.TLSRoute} :
               \A i \in DOMAIN objs :
                   NoRepeat([j \in DOMAIN objs[i].Status.Gateways |->
                                objs[i].Status.Gateways[j].GatewayRef])

\* the gateway entries of the route's status are those of the owners the latest
\* pass gave the route: none for a route that is no key of the ownership map
StatusNamesOwners(obj) ==
    LET owners == IF RouteKeyOf(obj) \in DOMAIN ownership
                  THEN ownership[RouteKeyOf(obj)] ELSE <<>>
        entries == obj.Status.Gateways
    IN  /\ Len(entries) = Len(owners)
        /\ \A i \in DOMAIN owners :
               IF owners[i] = "mesh"
               THEN entries[i].GatewayRef = [Name |-> "mesh", Namespace |-> "default"]
               ELSE entries[i].GatewayRef.Namespace \o "/" \o entries[i].GatewayRef.Name
                        = owners[i]

\* C28: after every pass of a sequence of passes over the same objects, the
\* gateway entries of each route's status name exactly the owners the route has
\* in that pass; a route an earlier pass bound and this pass binds to nothing
\* has no entry left.
C28_StatusFollowsLatestPass ==
    converted =>
        \A objs \in {resources.HTTPRoute, resources.TCPRoute, resources.TLSRoute} :
            \A i \in DOMAIN objs : StatusNamesOwners(objs[i])

=============================================================================
